---- MODULE Spec2Model ----
\* Instance extraction pipeline of the clustering_final scripts:
\*   python_instance_enhanced_fixed1.py   (buildings, polygons)
\*   python_vegetation_enhanced_fixed1.py (vegetation, polygons)
\*   python_wire_enhanced.py              (wires, lines)
\*   python_mast_enhanced.py              (mast centroid cleanup)
\*
\* Coordinates are integers (metres).  Every comparison the scripts make on
\* floating-point lengths, areas and ratios is made here on exact integers:
\* lengths are compared through their squares, areas through twice the area,
\* box centres through twice the centre, ratios by cross-multiplication.
\*
\* A point array (cluster_points) is a sequence of runs [p |-> <<x, y>>, m |-> k]:
\* k consecutive rows of the array holding the same 2D position (the scripts
\* cluster the X,Y projection of 3D voxel-filtered points, so one position can
\* occur in many rows).  len(array) is the sum of the run lengths.
EXTENDS Integers, Sequences, FiniteSets, TLC

\* ------------------------------------------------------------------ bounds
\* most clusters DBSCAN returns in one run
MaxClusters == 2
\* Qhull may start the hull at any vertex: start offsets 0..MaxRot are tried
MaxRot == 1
\* most positions of a cluster handed to the footprint builder on its own
MaxFootPositions == 5
\* most rows at one position of such a cluster
MaxMult == 3
\* most masts in a centroids file
MaxMasts == 3
\* most rows of a point array handed to a pre-processing stage
MaxRows == 3
\* most vertices of a list handed to a metric function
MaxVertices == 5

\* ------------------------------------------------------- program constants
BuildingMinPoints == 80
BuildingMinArea == 20
BuildingMaxArea == 5000
BuildingMaxAspect == 12
BuildingMinDistance == 8
BuildingAlpha == 4
BuildingMinHull == 4
VegetationMinPoints == 40
VegetationMinArea == 8
VegetationMaxArea == 3000
VegetationMaxAspect == 20
VegetationMinDistance == 5
VegetationAlpha == 5
VegetationMinHull == 6
MaxNeighbors == 10
WireMinPoints == 20
WireMinLength == 5
WireMinAspect == 3
WireMaxLinePoints == 50
BuildingMinInput == 50
BuildingMinFiltered == 20
BuildingMinClean == 100
VegetationMinFiltered == 20
WireMinFiltered == 10
\* MAST_FILTERS and the default proximity radius of python_mast_enhanced.py;
\* the radius is in half metres, scores are in thousandths
MastMinPoints == 100
MastMaxPoints == 3000
MinRelativeHeight == 5
MaxRelativeHeight == 50
MinDensity == 10
MaxDensity == 200
MinQualityScore == 600
ProximityRadius == 3

\* ------------------------------------------------------------ arithmetic
Abs(x) == IF x < 0 THEN -x ELSE x

Sq(x) == x * x

RECURSIVE SumSeq(_)
SumSeq(s) == IF s = <<>> THEN 0 ELSE s[1] + SumSeq(Tail(s))

MinOf(S) == CHOOSE x \in S : \A y \in S : x <= y

MaxOf(S) == CHOOSE x \in S : \A y \in S : x >= y

Range(s) == {s[i] : i \in 1..Len(s)}

\* Python None
None == <<>>

\* -------------------------------------------------------- point arrays
\* len(points_2d)
NumPoints(arr) == SumSeq([i \in 1..Len(arr) |-> arr[i].m])

\* the distinct positions of the array
Positions(arr) == {arr[i].p : i \in 1..Len(arr)}

Dist2(a, b) == Sq(a[1] - b[1]) + Sq(a[2] - b[2])

Cross(o, a, b) == (a[1] - o[1]) * (b[2] - o[2]) - (a[2] - o[2]) * (b[1] - o[1])

\* -------------------------------------------- scipy.spatial.ConvexHull (2D)
\* b follows a on the counter-clockwise hull boundary of S: every other point
\* is strictly left of a->b, or on the line strictly between a and b.
IsHullEdge(S, a, b) ==
    /\ a # b
    /\ \A c \in S \ {a, b} :
          \/ Cross(a, b, c) > 0
          \/ Cross(a, b, c) = 0 /\ Dist2(a, c) < Dist2(a, b) /\ Dist2(b, c) < Dist2(a, b)

\* Qhull raises QhullError on fewer than 3 points and on a flat (collinear) input
HullFails(S) ==
    \/ Cardinality(S) < 3
    \/ \A a, b, c \in S : Cross(a, b, c) = 0

HullNext(S, a) == CHOOSE b \in S : IsHullEdge(S, a, b)

RECURSIVE HullWalk(_, _, _)
HullWalk(S, start, cur) ==
    LET nxt == HullNext(S, cur)
    IN IF nxt = start THEN <<cur>> ELSE <<cur>> \o HullWalk(S, start, nxt)

Rotate(s, r) ==
    LET n == Len(s)
        k == r % n
    IN [i \in 1..n |-> s[((i - 1 + k) % n) + 1]]

\* hull.vertices as positions, counter-clockwise; Qhull's first vertex is not
\* specified, so the walk starts at any vertex (r rotates the start).
HullVertices(S, r) ==
    LET low == CHOOSE p \in S : \A q \in S : p[1] < q[1] \/ (p[1] = q[1] /\ p[2] <= q[2])
    IN Rotate(HullWalk(S, low, low), r)

\* twice the shoelace sum of an open vertex list, taken cyclically
Shoelace2(v) ==
    LET n == Len(v)
        nx(i) == IF i = n THEN 1 ELSE i + 1
    IN SumSeq([i \in 1..n |-> v[i][1] * v[nx(i)][2] - v[nx(i)][1] * v[i][2]])

\* twice hull.volume
HullArea2(S) == Abs(Shoelace2(HullVertices(S, 0)))

\* ------------------------------------------------------------- sorting
RECURSIVE SortedSeq(_)
SortedSeq(s) ==
    IF s = <<>> THEN <<>>
    ELSE LET lo == MinOf(Range(s))
             k == CHOOSE i \in 1..Len(s) : s[i] = lo
         IN <<lo>> \o SortedSeq(SubSeq(s, 1, k - 1) \o SubSeq(s, k + 1, Len(s)))

\* ------------------------------------------------- footprint construction
\* len(tree.query_ball_point(point, alpha)): rows within distance alpha, the
\* point itself included
NeighborCount(arr, q, alpha) ==
    SumSeq([i \in 1..Len(arr) |-> IF Dist2(arr[i].p, q) <= Sq(alpha) THEN arr[i].m ELSE 0])

\* boundary_points: the rows with at most 10 neighbours, in array order
BoundaryPoints(arr, alpha) ==
    SelectSeq(arr, LAMBDA row : NeighborCount(arr, row.p, alpha) <= MaxNeighbors)

\* ClosedHull without the closing vertex
ClosedHull_Open(S, r) == HullVertices(S, r)

\* closed hull of a position set: hull vertices + the first one again
ClosedHull(S, r) ==
    LET h == HullVertices(S, r)
    IN h \o <<h[1]>>

\* common body of create_concave_hull / create_vegetation_concave_hull
ConcaveHull(arr, alpha, minPts, r) ==
    IF NumPoints(arr) < minPts THEN None
    ELSE LET boundary == BoundaryPoints(arr, alpha)
         IN IF NumPoints(boundary) < minPts THEN None
            ELSE IF HullFails(Positions(boundary)) THEN None
            ELSE ClosedHull(Positions(boundary), r)

create_concave_hull(arr, r) == ConcaveHull(arr, BuildingAlpha, BuildingMinHull, r)

create_vegetation_concave_hull(arr, r) == ConcaveHull(arr, VegetationAlpha, VegetationMinHull, r)

\* point_to_line_distance(p, a, b) > point_to_line_distance(q, a, b)
FartherFromLine(p, q, a, b) ==
    IF Dist2(a, b) = 0 THEN Dist2(p, a) > Dist2(q, a)
    ELSE Abs(Cross(a, b, p)) > Abs(Cross(a, b, q))

\* point_to_line_distance(p, a, b) > tn / td
LineDistExceeds(p, a, b, tn, td) ==
    IF Dist2(a, b) = 0 THEN Dist2(p, a) * Sq(td) > Sq(tn)
    ELSE Sq(Cross(a, b, p)) * Sq(td) > Sq(tn) * Dist2(a, b)

\* dp_simplify(points, epsilon) with epsilon = tn / td; lists of at most
\* `keep` points are returned as they are (2 for buildings, 3 for vegetation)
RECURSIVE dp_simplify(_, _, _, _)
dp_simplify(points, tn, td, keep) ==
    IF Len(points) <= keep THEN points
    ELSE LET n == Len(points)
             a == points[1]
             b == points[n]
             \* first interior index of maximal distance
             index == CHOOSE i \in 2..(n - 1) :
                         /\ \A j \in 2..(n - 1) : ~FartherFromLine(points[j], points[i], a, b)
                         /\ \A j \in 2..(i - 1) : FartherFromLine(points[i], points[j], a, b)
         IN IF LineDistExceeds(points[index], a, b, tn, td)
            THEN LET left == dp_simplify(SubSeq(points, 1, index), tn, td, keep)
                     right == dp_simplify(SubSeq(points, index, n), tn, td, keep)
                 IN SubSeq(left, 1, Len(left) - 1) \o right
            ELSE <<a, b>>

\* the closing step of simplify_polygon
EnsureClosed(s) == IF Len(s) > 0 /\ s[1] # s[Len(s)] THEN s \o <<s[1]>> ELSE s

\* simplify_polygon(coords, tolerance=0.5)
simplify_polygon(coords) ==
    IF Len(coords) < 4 THEN coords
    ELSE EnsureClosed(dp_simplify(coords, 1, 2, 2))

\* simplify_vegetation_polygon(coords, tolerance=0.7)
simplify_vegetation_polygon(coords) ==
    IF Len(coords) < 6 THEN coords
    ELSE EnsureClosed(dp_simplify(coords, 7, 10, 3))

\* axis-aligned bounding box of all rows, closed
AxisAlignedBBox(arr) ==
    LET xs == {p[1] : p \in Positions(arr)}
        ys == {p[2] : p \in Positions(arr)}
    IN << <<MinOf(xs), MinOf(ys)>>, <<MaxOf(xs), MinOf(ys)>>, <<MaxOf(xs), MaxOf(ys)>>,
          <<MinOf(xs), MaxOf(ys)>>, <<MinOf(xs), MinOf(ys)>> >>

\* create_oriented_bbox_with_cuts: the closed convex hull, None when Qhull fails
\* (its own bare except turns every failure into a None return value)
create_oriented_bbox_with_cuts(arr, r) ==
    IF HullFails(Positions(arr)) THEN None ELSE ClosedHull(Positions(arr), r)

\* create_footprint_building: Method 1 concave hull + simplification, Method 2
\* convex hull, Method 3 create_oriented_bbox_with_cuts whose return value is
\* returned as it is.  Method 4 (axis-aligned box) follows Method 3's return
\* statement and is reached only if Method 3 raises, which it never does.
create_footprint_building(arr, r) ==
    IF NumPoints(arr) < 4 THEN None
    ELSE LET hull == create_concave_hull(arr, r)
             simplified == simplify_polygon(hull)
         IN IF hull # None /\ Len(hull) >= 4 /\ Len(simplified) >= 4 THEN simplified
            ELSE IF ~HullFails(Positions(arr)) THEN ClosedHull(Positions(arr), r)
            ELSE create_oriented_bbox_with_cuts(arr, r)

\* create_vegetation_polygon: Method 1 concave hull + simplification, Method 2
\* convex hull, Method 3 axis-aligned bounding box
create_vegetation_polygon(arr, r) ==
    IF NumPoints(arr) < 6 THEN None
    ELSE LET hull == create_vegetation_concave_hull(arr, r)
             simplified == simplify_vegetation_polygon(hull)
         IN IF hull # None /\ Len(hull) >= 6 /\ Len(simplified) >= 6 THEN simplified
            ELSE IF ~HullFails(Positions(arr)) THEN ClosedHull(Positions(arr), r)
            ELSE AxisAlignedBBox(arr)

\* calculate_polygon_area without abs()
calculate_polygon_area_Signed(coords) ==
    IF Len(coords) < 4 THEN 0
    ELSE Shoelace2(SubSeq(coords, 1, Len(coords) - 1))

\* ------------------------------------------------------ geometry metrics
\* calculate_polygon_area, in half square metres (twice the shoelace area)
calculate_polygon_area(coords) ==
    IF Len(coords) < 4 THEN 0
    ELSE Abs(Shoelace2(SubSeq(coords, 1, Len(coords) - 1)))

\* squared lengths of the edges between consecutive vertices
EdgeLengths2(coords) == [k \in 1..(Len(coords) - 1) |-> Dist2(coords[k], coords[k + 1])]

\* the length of an edge; the vertices drawn for perimeters are a whole
\* number of units apart
EdgeLength(a, b) == CHOOSE r \in 0..Dist2(a, b) : r * r = Dist2(a, b)

\* calculate_polygon_perimeter of the building script: no minimum length
calculate_polygon_perimeter(coords) ==
    SumSeq([k \in 1..(Len(coords) - 1) |-> EdgeLength(coords[k], coords[k + 1])])

\* calculate_polygon_perimeter of the vegetation script without its minimum
vegetation_calculate_polygon_perimeter_NoMinimum(coords) ==
    calculate_polygon_perimeter(coords)

\* calculate_polygon_perimeter of the vegetation script
vegetation_calculate_polygon_perimeter(coords) ==
    IF Len(coords) < 3 THEN 0
    ELSE calculate_polygon_perimeter(coords)

\* calculate_compactness, as <<num, den>> with compactness = pi * num / den;
\* area2 is twice the area
calculate_compactness(area2, perimeter) ==
    IF perimeter > 0 THEN <<2 * area2, Sq(perimeter)>> ELSE <<0, 1>>

\* calculate_aspect_ratio of the building script, as <<num, den>> with
\* ratio^2 = num / den: shortest edge against third-shortest edge
calculate_aspect_ratio(coords) ==
    IF Len(coords) < 4 THEN <<1, 1>>
    ELSE LET edge_lengths == SortedSeq(EdgeLengths2(coords))
         IN IF Len(edge_lengths) >= 4 /\ edge_lengths[1] > 0
            THEN <<edge_lengths[3], edge_lengths[1]>>
            ELSE <<1, 1>>

\* calculate_aspect_ratio of the vegetation script (bounding box), as
\* <<num, den>> with ratio^2 = num / den; <<1, 0>> is float('inf'); a zero
\* width raises ZeroDivisionError, which the bare except turns into 1.0
vegetation_calculate_aspect_ratio(coords) ==
    IF Len(coords) < 3 THEN <<1, 1>>
    ELSE LET xs == {coords[k][1] : k \in 1..Len(coords)}
             ys == {coords[k][2] : k \in 1..Len(coords)}
             width == MaxOf(xs) - MinOf(xs)
             height == MaxOf(ys) - MinOf(ys)
         IN IF height = 0 THEN <<1, 0>>
            ELSE IF width = 0 THEN <<1, 1>>
            ELSE <<Sq(MaxOf({width, height})), Sq(MinOf({width, height}))>>

\* aspect_ratio > limit
AspectExceeds(aspect, limit) == aspect[1] > Sq(limit) * aspect[2]

\* calculate_point_density as <<rows, twice the hull area>>; <<0, 1>> is the
\* value 0 returned when there are fewer than 4 rows or Qhull fails
calculate_point_density(arr) ==
    IF NumPoints(arr) < 4 THEN <<0, 1>>
    ELSE IF HullFails(Positions(arr)) THEN <<0, 1>>
    ELSE IF HullArea2(Positions(arr)) > 0 THEN <<2 * NumPoints(arr), HullArea2(Positions(arr))>>
    ELSE <<0, 1>>

\* cluster_density < 0.3
TooSparse(density) == 10 * density[1] < 3 * density[2]

\* ---------------------------------------------------------- overlap check
BBox(coords) ==
    LET xs == {coords[k][1] : k \in 1..Len(coords)}
        ys == {coords[k][2] : k \in 1..Len(coords)}
    IN [min_x |-> MinOf(xs), max_x |-> MaxOf(xs), min_y |-> MinOf(ys), max_y |-> MaxOf(ys)]

\* the bounding boxes of two vertex lists do not overlap
BBoxDisjoint(a, b) ==
    \/ BBox(a).max_x < BBox(b).min_x
    \/ BBox(a).min_x > BBox(b).max_x
    \/ BBox(a).max_y < BBox(b).min_y
    \/ BBox(a).min_y > BBox(b).max_y

\* twice the bounding-box centre
Center2(coords) == <<BBox(coords).min_x + BBox(coords).max_x, BBox(coords).min_y + BBox(coords).max_y>>

\* distance between the bounding-box centres < min_distance
CenterCloser(a, b, min_distance) == Dist2(Center2(a), Center2(b)) < 4 * Sq(min_distance)

\* has_overlap_with_existing of the building script: the centre distance is
\* tested only against the existing polygons whose bounding box overlaps
has_overlap_with_existing(new_coords, existing_polygons, min_distance) ==
    \E k \in 1..Len(existing_polygons) :
        /\ ~BBoxDisjoint(new_coords, existing_polygons[k])
        /\ CenterCloser(new_coords, existing_polygons[k], min_distance)

\* sum of the vertex coordinates, the closing vertex included
VertexSum(coords) ==
    <<SumSeq([k \in 1..Len(coords) |-> coords[k][1]]), SumSeq([k \in 1..Len(coords) |-> coords[k][2]])>>

\* distance between the vertex centroids (sum / len) < min_distance
CentroidCloser(a, b, min_distance) ==
    LET sa == VertexSum(a)
        sb == VertexSum(b)
        na == Len(a)
        nb == Len(b)
    IN Sq(sa[1] * nb - sb[1] * na) + Sq(sa[2] * nb - sb[2] * na) < Sq(min_distance) * Sq(na * nb)

\* has_overlap_with_existing of the vegetation script: centre distance only
vegetation_has_overlap_with_existing(new_polygon, existing_polygons, min_distance) ==
    \E k \in 1..Len(existing_polygons) :
        CentroidCloser(new_polygon, existing_polygons[k], min_distance)

\* ------------------------------------------------ one loop iteration each
\* building_candidate without the upper bound of the size filter
building_candidate_NoMaxArea(arr, r, building_polygons) ==
    LET polygon_coords == create_footprint_building(arr, r)
        area_m2 == calculate_polygon_area(polygon_coords)
        aspect_ratio == calculate_aspect_ratio(polygon_coords)
        outcome ==
            IF NumPoints(arr) < BuildingMinPoints THEN "too_few_points"
            ELSE IF TooSparse(calculate_point_density(arr)) THEN "too_sparse"
            ELSE IF polygon_coords = None THEN "invalid_polygon"
            ELSE IF area_m2 < 2 * BuildingMinArea THEN "too_small"
            ELSE IF AspectExceeds(aspect_ratio, BuildingMaxAspect) THEN "aspect_ratio"
            ELSE IF has_overlap_with_existing(polygon_coords, building_polygons, BuildingMinDistance)
                 THEN "overlap"
            ELSE "accepted"
    IN [outcome |-> outcome, polygon_coords |-> polygon_coords, area_m2 |-> area_m2,
        aspect_ratio |-> aspect_ratio, point_count |-> NumPoints(arr)]

\* building_candidate with the size filter ahead of the point-count filter
building_candidate_SizeFirst(arr, r, building_polygons) ==
    LET polygon_coords == create_footprint_building(arr, r)
        area_m2 == calculate_polygon_area(polygon_coords)
        aspect_ratio == calculate_aspect_ratio(polygon_coords)
        outcome ==
            IF polygon_coords = None THEN "invalid_polygon"
            ELSE IF area_m2 < 2 * BuildingMinArea THEN "too_small"
            ELSE IF area_m2 > 2 * BuildingMaxArea THEN "too_large"
            ELSE IF NumPoints(arr) < BuildingMinPoints THEN "too_few_points"
            ELSE IF TooSparse(calculate_point_density(arr)) THEN "too_sparse"
            ELSE IF AspectExceeds(aspect_ratio, BuildingMaxAspect) THEN "aspect_ratio"
            ELSE IF has_overlap_with_existing(polygon_coords, building_polygons, BuildingMinDistance)
                 THEN "overlap"
            ELSE "accepted"
    IN [outcome |-> outcome, polygon_coords |-> polygon_coords, area_m2 |-> area_m2,
        aspect_ratio |-> aspect_ratio, point_count |-> NumPoints(arr)]

\* the loop body of extract_instance_buildings_enhanced for one cluster
building_candidate(arr, r, building_polygons) ==
    LET polygon_coords == create_footprint_building(arr, r)
        area_m2 == calculate_polygon_area(polygon_coords)
        aspect_ratio == calculate_aspect_ratio(polygon_coords)
        outcome ==
            IF NumPoints(arr) < BuildingMinPoints THEN "too_few_points"
            ELSE IF TooSparse(calculate_point_density(arr)) THEN "too_sparse"
            ELSE IF polygon_coords = None THEN "invalid_polygon"
            ELSE IF area_m2 < 2 * BuildingMinArea THEN "too_small"
            ELSE IF area_m2 > 2 * BuildingMaxArea THEN "too_large"
            ELSE IF AspectExceeds(aspect_ratio, BuildingMaxAspect) THEN "aspect_ratio"
            ELSE IF has_overlap_with_existing(polygon_coords, building_polygons, BuildingMinDistance)
                 THEN "overlap"
            ELSE "accepted"
    IN [outcome |-> outcome, polygon_coords |-> polygon_coords, area_m2 |-> area_m2,
        aspect_ratio |-> aspect_ratio, point_count |-> NumPoints(arr)]

\* the loop body of extract_vegetation_polygons_enhanced for one cluster
vegetation_candidate(arr, r, vegetation_polygons) ==
    LET polygon_coords == create_vegetation_polygon(arr, r)
        area_m2 == calculate_polygon_area(polygon_coords)
        aspect_ratio == vegetation_calculate_aspect_ratio(polygon_coords)
        outcome ==
            IF NumPoints(arr) < VegetationMinPoints THEN "too_few_points"
            ELSE IF polygon_coords = None THEN "invalid_polygon"
            ELSE IF area_m2 < 2 * VegetationMinArea THEN "too_small"
            ELSE IF area_m2 > 2 * VegetationMaxArea THEN "too_large"
            ELSE IF AspectExceeds(aspect_ratio, VegetationMaxAspect) THEN "aspect_ratio"
            ELSE IF vegetation_has_overlap_with_existing(polygon_coords, vegetation_polygons,
                                                         VegetationMinDistance)
                 THEN "overlap"
            ELSE "accepted"
    IN [outcome |-> outcome, polygon_coords |-> polygon_coords, area_m2 |-> area_m2,
        aspect_ratio |-> aspect_ratio, point_count |-> NumPoints(arr)]

\* the coordinate ring of the Feature: the polygon, closed if it is not
FeatureRing(polygon_coords) == EnsureClosed(polygon_coords)

\* the Feature appended for an accepted polygon candidate
PolygonFeature(cand, id) ==
    [polygon_id |-> id,
     coordinates |-> FeatureRing(cand.polygon_coords),
     area_m2 |-> cand.area_m2,
     point_count |-> cand.point_count,
     aspect_ratio |-> cand.aspect_ratio]

\* ------------------------------------------------------------ wire lines
\* entries of N^2 * (N - 1) * np.cov(centered_points.T), N the number of rows
Scatter(arr, a, b) ==
    LET n == NumPoints(arr)
        sa == SumSeq([k \in 1..Len(arr) |-> arr[k].m * arr[k].p[a]])
        sb == SumSeq([k \in 1..Len(arr) |-> arr[k].m * arr[k].p[b]])
    IN SumSeq([k \in 1..Len(arr) |-> arr[k].m * (n * arr[k].p[a] - sa) * (n * arr[k].p[b] - sb)])

\* the covariance matrix is diagonal with distinct entries: eigh's last
\* eigenvector is then a coordinate axis (up to sign)
AxisAligned(arr) == Scatter(arr, 1, 2) = 0 /\ Scatter(arr, 1, 1) # Scatter(arr, 2, 2)

\* principal_direction = eigenvectors[:, -1], as the index of the axis
PrincipalAxis(arr) == IF Scatter(arr, 1, 1) > Scatter(arr, 2, 2) THEN 1 ELSE 2

\* np.max(projections) - np.min(projections) along axis a
Extent(arr, a) ==
    MaxOf({p[a] : p \in Positions(arr)}) - MinOf({p[a] : p \in Positions(arr)})

\* the loop body of extract_wire_lines_enhanced for one cluster whose
\* covariance matrix is diagonal
wire_candidate(arr) ==
    LET axis == PrincipalAxis(arr)
        line_length == Extent(arr, axis)
        line_width == Extent(arr, 3 - axis)
        \* aspect_ratio = line_length / max(line_width, 0.1), times 10
        width10 == IF line_width = 0 THEN 1 ELSE 10 * line_width
        outcome ==
            IF NumPoints(arr) < WireMinPoints THEN "too_few_points"
            ELSE IF line_length < WireMinLength THEN "too_short"
            ELSE IF 10 * line_length < WireMinAspect * width10 THEN "not_linear"
            ELSE "accepted"
    IN [outcome |-> outcome, length_m |-> line_length, width_m |-> line_width,
        point_count |-> NumPoints(arr), cluster_points |-> arr, axis |-> axis,
        direction |-> 1]

\* eigh returns the principal eigenvector up to its sign: the candidate with
\* the direction LAPACK chose
EigenvectorSign(s, cand, flip) ==
    IF s = "wire" /\ flip THEN [cand EXCEPT !.direction = -1] ELSE cand

\* cluster_points[:, :2]: the rows of the array, one entry per row
RECURSIVE RowsOf(_)
RowsOf(arr) ==
    IF arr = <<>> THEN <<>>
    ELSE [k \in 1..arr[1].m |-> arr[1].p] \o RowsOf(Tail(arr))

\* the array in the order its rows were given, no sort
SortedByProjection_Unsorted(arr, axis, direction) == arr

\* projections_with_indices.sort(): the tuples (projection, idx) ascending.
\* The rows of a run are consecutive and project equally, so the runs come in
\* ascending projection, runs that project equally in array order.
RECURSIVE SortedByProjection(_, _, _)
SortedByProjection(arr, axis, direction) ==
    IF arr = <<>> THEN <<>>
    ELSE LET k == CHOOSE j \in 1..Len(arr) :
                     /\ \A o \in 1..Len(arr) :
                           direction * arr[o].p[axis] >= direction * arr[j].p[axis]
                     /\ \A o \in 1..(j - 1) :
                           direction * arr[o].p[axis] > direction * arr[j].p[axis]
         IN <<arr[k]>> \o SortedByProjection(SubSeq(arr, 1, k - 1)
                                              \o SubSeq(arr, k + 1, Len(arr)),
                                              axis, direction)

\* n_sample_points = min(50, len(projections_with_indices))
n_sample_points(n) == IF n < WireMaxLinePoints THEN n ELSE WireMaxLinePoints

\* np.linspace(0, n - 1, k, dtype=int)[j], j counted from 0: j * (n - 1) / (k - 1)
\* truncated
SampleIndex(n, k, j) == IF k = 1 THEN 0 ELSE (j * (n - 1)) \div (k - 1)

\* the rows at the sample indices, in that order
Sampled(rows, k) == [j \in 1..k |-> rows[SampleIndex(Len(rows), k, j - 1) + 1]]

\* line_coordinates: the cluster's rows ordered along the principal direction
\* and sampled
line_coordinates(arr, axis, direction) ==
    Sampled(RowsOf(SortedByProjection(arr, axis, direction)), n_sample_points(NumPoints(arr)))

\* the Feature appended for an accepted wire line
LineFeature(cand, id) ==
    [line_id |-> id,
     coordinates |-> line_coordinates(cand.cluster_points, cand.axis, cand.direction),
     length_m |-> cand.length_m, width_m |-> cand.width_m,
     point_count |-> cand.point_count]

\* ----------------------------------------------------------------- inputs
\* a cluster of 4 * m rows on the corners of the w x h rectangle at (x0, y0)
Rect(x0, y0, w, h, m) ==
    << [p |-> <<x0, y0>>, m |-> m], [p |-> <<x0 + w, y0>>, m |-> m],
       [p |-> <<x0 + w, y0 + h>>, m |-> m], [p |-> <<x0, y0 + h>>, m |-> m] >>

\* single rows on a hexagon around a mass of m rows at its centre
Hexagon(x0, y0, m) ==
    << [p |-> <<x0 + 4, y0>>, m |-> 1], [p |-> <<x0 + 8, y0>>, m |-> 1],
       [p |-> <<x0 + 12, y0 + 6>>, m |-> 1], [p |-> <<x0 + 8, y0 + 12>>, m |-> 1],
       [p |-> <<x0 + 4, y0 + 12>>, m |-> 1], [p |-> <<x0, y0 + 6>>, m |-> 1],
       [p |-> <<x0 + 6, y0 + 6>>, m |-> m] >>

\* the clusters DBSCAN can hand to the polygon loops
PolygonClusters ==
    { Rect(0, 0, 10, 20, 125),      \* 500 rows, 200 m2, 2:1
      Rect(3, 0, 10, 20, 125),      \* the same, 3 m to the east
      << [p |-> <<40, 0>>, m |-> 8], [p |-> <<45, 0>>, m |-> 8],
         [p |-> <<45, 1>>, m |-> 7], [p |-> <<40, 1>>, m |-> 7] >>,   \* 30 rows, 5 m2
      Rect(40, 0, 5, 1, 20),        \* 80 rows, 5 m2
      Rect(0, 40, 2, 10, 20),       \* 80 rows, 2 x 10
      Rect(3, 40, 2, 10, 20),       \* the same, 3 m to the east
      Rect(60, 0, 2, 30, 20),       \* 15:1
      Rect(60, 40, 1, 25, 20),      \* 25:1
      Rect(100, 0, 40, 40, 20),     \* 80 rows on 1600 m2
      Rect(0, 100, 100, 60, 500),   \* 6000 m2
      Hexagon(20, 60, 100),         \* outline rows with few neighbours
      << [p |-> <<0, 80>>, m |-> 40], [p |-> <<5, 80>>, m |-> 40],
         [p |-> <<10, 80>>, m |-> 40] >> }                             \* collinear

\* the clusters DBSCAN can hand to the wire loop
WireClusters ==
    { arr \in { << [p |-> <<0, 0>>, m |-> 10], [p |-> <<10, 0>>, m |-> 10] >>,
                << [p |-> <<0, 5>>, m |-> 5], [p |-> <<10, 5>>, m |-> 5] >>,
                << [p |-> <<0, 9>>, m |-> 10], [p |-> <<4, 9>>, m |-> 10] >>,
                << [p |-> <<20, 0>>, m |-> 15], [p |-> <<20, 20>>, m |-> 15] >>,
                << [p |-> <<12, 30>>, m |-> 30], [p |-> <<0, 30>>, m |-> 30],
                   [p |-> <<6, 30>>, m |-> 30] >>,
                Rect(30, 0, 6, 4, 5) } : AxisAligned(arr) }

\* sequences of 0..n elements of S
RECURSIVE SeqsUpTo(_, _)
SeqsUpTo(S, n) ==
    IF n = 0 THEN {<<>>}
    ELSE LET shorter == SeqsUpTo(S, n - 1)
         IN shorter \cup {Append(q, x) : q \in {t \in shorter : Len(t) = n - 1}, x \in S}

\* total number of rows in a sequence of clusters
RowsIn(cs) == SumSeq([k \in 1..Len(cs) |-> NumPoints(cs[k])])

\* row counts a stage can be left with
Counts == {0, 5, 15, 30, 70, 8000, 9000}

\* ================================================= one extraction run
VARIABLES
    script,            \* "building", "vegetation" or "wire": the script invoked
    reader,            \* the external reader: times run, how it ended, unparsable output
    pc,                \* position of the run
    fs,                \* the temporary files of the run that exist
    input_points,      \* len(points_3d)
    voxel_filtered,    \* len(voxel_filtered)
    height_filtered,   \* len(height_filtered)
    clean_points,      \* len(clean_points_2d) / len(clean_points_3d)
    clusters,          \* the clusters by DBSCAN label: clusters[k + 1] has label k
    unique_labels,     \* the labels in the order the loop visits them
    i,                 \* loop iterations completed
    instances,         \* buildings / vegetation_areas / wire_lines
    polygons,          \* building_polygons / vegetation_polygons
    rejected_stats,    \* rejection counters
    log,               \* the outcome printed for each candidate, in order
    result,            \* return value of the extraction function
    output_written,    \* number of times the output GeoJSON was written
    output_file,       \* content of the output GeoJSON file
    exit_code          \* process exit status, -1 while running

runVars == <<script, reader, pc, fs, input_points, voxel_filtered, height_filtered, clean_points,
             clusters, unique_labels, i, instances, polygons, rejected_stats, log, result,
             output_written, output_file, exit_code>>

\* the footprint builder called on its own
VARIABLES
    fp_kind,           \* "building" or "vegetation": which builder is called
    fp_points,         \* points_2d, the argument
    fp_pc,             \* "call", "returned" or "emitted"
    fp_polygon,        \* the value returned, None for no polygon
    fp_ring            \* the coordinate ring of the Feature built from it

footVars == <<fp_kind, fp_points, fp_pc, fp_polygon, fp_ring>>

\* the mast cleanup script
VARIABLES
    mast_pc,           \* position of python_mast_enhanced.py
    centroids,         \* data['centroids'] as read from the centroids file
    min_z,             \* data['utm_bounds']['min_z']
    mast_i,            \* masts the filter loop has visited
    clean_masts,       \* clean_masts
    filtered_stats,    \* filtered_stats
    has_filtering,     \* whether the data returned has the key 'filtering'
    clean_written,     \* number of times the _clean.json file was written
    mast_exit          \* process exit status, -1 while running

mastVars == <<mast_pc, centroids, min_z, mast_i, clean_masts, filtered_stats, has_filtering,
              clean_written, mast_exit>>

\* two invocations running as separate processes on one machine
VARIABLES
    proc,              \* per invocation: its script, chunk path and position
    tmp,               \* /tmp: for each temporary file name, the invocation
                       \* that wrote the file, 0 when the file does not exist
    interference       \* <<what, p, q>>: invocation p read, overwrote or
                       \* deleted a temporary file written by invocation q

procVars == <<proc, tmp, interference>>

\* the accept/reject stage, or the mast deduplication, run twice on one input
VARIABLES
    rr_script,         \* "building", "vegetation", "wire" or "mast"
    rr_input,          \* the labelled clusters in label order, or the mast list
    rr_rot,            \* Qhull's first hull vertex, the same in both passes
    rr_pass,           \* 1 or 2: the pass under way, 3 when both are done
    rr_i,              \* clusters the pass under way has evaluated
    rr_instances,      \* the accepted list of the pass under way
    rr_polygons,       \* building_polygons / vegetation_polygons of that pass
    rr_first           \* the accepted list the first pass ended with

rerunVars == <<rr_script, rr_input, rr_rot, rr_pass, rr_i, rr_instances, rr_polygons, rr_first>>

\* one function of the scripts called on its own
VARIABLES
    fn,                \* the function called
    args,              \* its argument
    ret,               \* the value it returned
    fn_pc              \* "call" or "returned"

callVars == <<fn, args, ret, fn_pc>>

\* what the actions of one group leave alone
outsideRun == <<footVars, mastVars, procVars, rerunVars, callVars>>

outsideFootprint == <<runVars, mastVars, procVars, rerunVars, callVars>>

outsideMast == <<runVars, footVars, procVars, rerunVars, callVars>>

outsideConcurrent == <<runVars, footVars, mastVars, rerunVars, callVars>>

outsideRerun == <<runVars, footVars, mastVars, procVars, callVars>>

outsideCalls == <<runVars, footVars, mastVars, procVars, rerunVars>>

RerunIdle ==
    /\ rr_script = "building"
    /\ rr_input = <<>>
    /\ rr_rot = 0
    /\ rr_pass = 0
    /\ rr_i = 0
    /\ rr_instances = <<>>
    /\ rr_polygons = <<>>
    /\ rr_first = <<>>

CallIdle ==
    /\ fn = "none"
    /\ args = <<>>
    /\ ret = <<>>
    /\ fn_pc = "idle"

Scripts == {"building", "vegetation", "wire"}

\* the output GeoJSON file as an earlier run left it
PreviousOutput == [written_by |-> "earlier run", features |-> <<>>]

\* with open(output_file, 'w'): json.dump(...): the file holds this run's
\* FeatureCollection and nothing of what it held before
WriteOutput(file, features) == [written_by |-> "this run", features |-> features]

ZeroStats ==
    [too_small |-> 0, too_large |-> 0, too_few_points |-> 0, aspect_ratio |-> 0,
     overlap |-> 0, invalid_polygon |-> 0, too_sparse |-> 0]

RunInit ==
    /\ script \in Scripts
    /\ reader = [runs |-> 0, status |-> "none", unparsed |-> FALSE]
    /\ pc = "main"
    /\ fs = {}
    /\ input_points = 0
    /\ voxel_filtered = 0
    /\ height_filtered = 0
    /\ clean_points = 0
    /\ clusters = <<>>
    /\ unique_labels = <<>>
    /\ i = 0
    /\ instances = <<>>
    /\ polygons = <<>>
    /\ rejected_stats = ZeroStats
    /\ log = <<>>
    /\ result = 0
    /\ output_written = 0
    /\ output_file = PreviousOutput
    /\ exit_code = -1

\* `return 0` of the extraction function
Return0 == pc' = "returned" /\ result' = 0

\* __main__ / main(): the chunk path must exist
Main ==
    /\ pc = "main"
    /\ \E path_exists \in BOOLEAN :
          IF path_exists
          THEN pc' = "normalize" /\ exit_code' = exit_code
          ELSE pc' = "exit" /\ exit_code' = 1
    /\ UNCHANGED outsideRun
    /\ UNCHANGED <<reader, unique_labels, script, fs, input_points, voxel_filtered, height_filtered, clean_points,
                   clusters, i, instances, polygons, rejected_stats, log, result,
                   output_written, output_file>>

\* path normalisation; the vegetation and wire scripts also require the .laz file
Normalize ==
    /\ pc = "normalize"
    /\ \E structure_ok \in BOOLEAN, laz_exists \in BOOLEAN :
          IF ~structure_ok THEN Return0
          ELSE IF script # "building" /\ ~laz_exists THEN Return0
          ELSE pc' = "write_pipeline" /\ result' = result
    /\ UNCHANGED outsideRun
    /\ UNCHANGED <<reader, unique_labels, script, fs, input_points, voxel_filtered, height_filtered, clean_points,
                   clusters, i, instances, polygons, rejected_stats, log,
                   output_written, output_file, exit_code>>

\* json.dump of the pipeline description to its temporary file
WritePipeline ==
    /\ pc = "write_pipeline"
    /\ fs' = fs \cup {"pipeline"}
    /\ pc' = "reader"
    /\ UNCHANGED outsideRun
    /\ UNCHANGED <<reader, unique_labels, script, input_points, voxel_filtered, height_filtered, clean_points,
                   clusters, i, instances, polygons, rejected_stats, log, result,
                   output_written, output_file, exit_code>>

\* RunReader running the reader a second time when the first run failed
RunReader_Retry ==
    /\ pc = "reader"
    /\ \E ok \in BOOLEAN, wrote \in BOOLEAN :
          /\ fs' = IF ok \/ wrote THEN fs \cup {"points"} ELSE fs
          /\ reader' = [reader EXCEPT !.runs = @ + 1,
                                      !.status = IF ok THEN "ok" ELSE "failed"]
          /\ IF ok THEN pc' = "load" /\ result' = result
             ELSE IF reader.runs = 0 THEN pc' = pc /\ result' = result
             ELSE Return0
    /\ UNCHANGED outsideRun
    /\ UNCHANGED <<unique_labels, script, input_points, voxel_filtered, height_filtered, clean_points,
                   clusters, i, instances, polygons, rejected_stats, log,
                   output_written, output_file, exit_code>>

\* subprocess.run of the external reader.  It writes the points file when it
\* succeeds and may have written it when it fails.  A failure is a non-zero
\* return code (building: return 0) or CalledProcessError (vegetation: outer
\* except, return 0; wire: except CalledProcessError, return 0).
RunReader ==
    /\ pc = "reader"
    /\ \E ok \in BOOLEAN, wrote \in BOOLEAN :
          /\ fs' = IF ok \/ wrote THEN fs \cup {"points"} ELSE fs
          /\ reader' = [reader EXCEPT !.runs = @ + 1,
                                      !.status = IF ok THEN "ok" ELSE "failed"]
          /\ IF ok THEN pc' = "load" /\ result' = result ELSE Return0
    /\ UNCHANGED outsideRun
    /\ UNCHANGED <<unique_labels, script, input_points, voxel_filtered, height_filtered, clean_points,
                   clusters, i, instances, polygons, rejected_stats, log,
                   output_written, output_file, exit_code>>

\* parsing of the points file.  building: np.loadtxt may fail (return 0), then
\* fewer than 50 rows return 0.  vegetation and wire: the rows are read, a
\* line that cannot be parsed is passed over, both temporary files are
\* removed, then zero rows return 0.
LoadPoints ==
    /\ pc = "load"
    /\ \E parse_ok \in BOOLEAN, n \in Counts :
          IF script = "building"
          THEN /\ fs' = fs
               /\ reader' = [reader EXCEPT !.unparsed = ~parse_ok]
               /\ IF ~parse_ok THEN Return0 /\ input_points' = input_points
                  ELSE /\ input_points' = n
                       /\ IF n < BuildingMinInput THEN Return0
                          ELSE pc' = "voxel" /\ result' = result
          ELSE /\ fs' = IF "points" \in fs THEN {} ELSE fs
               /\ reader' = [reader EXCEPT !.unparsed = ~parse_ok]
               /\ input_points' = n
               /\ IF n = 0 THEN Return0 ELSE pc' = "voxel" /\ result' = result
    /\ UNCHANGED outsideRun
    /\ UNCHANGED <<unique_labels, script, voxel_filtered, height_filtered, clean_points,
                   clusters, i, instances, polygons, rejected_stats, log,
                   output_written, output_file, exit_code>>

\* voxel grid: one row per occupied voxel
VoxelFilter ==
    /\ pc = "voxel"
    /\ \E n \in Counts : 1 <= n /\ n <= input_points /\ voxel_filtered' = n
    /\ pc' = "height"
    /\ UNCHANGED outsideRun
    /\ UNCHANGED <<reader, unique_labels, script, fs, input_points, height_filtered, clean_points,
                   clusters, i, instances, polygons, rejected_stats, log, result,
                   output_written, output_file, exit_code>>

\* fewest rows the outlier stage accepts
MinFiltered ==
    IF script = "building" THEN BuildingMinFiltered
    ELSE IF script = "vegetation" THEN VegetationMinFiltered
    ELSE WireMinFiltered

\* HeightFilter taking its rows from the array the reader loaded
HeightFilter_OnInput ==
    /\ pc = "height"
    /\ \E n \in Counts :
          /\ n < input_points
          /\ height_filtered' = n
          /\ IF n < MinFiltered THEN Return0 ELSE pc' = "outlier" /\ result' = result
    /\ UNCHANGED outsideRun
    /\ UNCHANGED <<reader, unique_labels, script, fs, input_points, voxel_filtered, clean_points,
                   clusters, i, instances, polygons, rejected_stats, log,
                   output_written, output_file, exit_code>>

\* rows strictly above the height percentile; too few rows return 0
HeightFilter ==
    /\ pc = "height"
    /\ \E n \in Counts :
          /\ n < voxel_filtered
          /\ height_filtered' = n
          /\ IF n < MinFiltered THEN Return0 ELSE pc' = "outlier" /\ result' = result
    /\ UNCHANGED outsideRun
    /\ UNCHANGED <<reader, unique_labels, script, fs, input_points, voxel_filtered, clean_points,
                   clusters, i, instances, polygons, rejected_stats, log,
                   output_written, output_file, exit_code>>

\* rows whose mean neighbour distance is below the threshold (none when all
\* mean distances are equal); building: fewer than 100 rows return 0
OutlierFilter ==
    /\ pc = "outlier"
    /\ \E n \in Counts :
          /\ n <= height_filtered
          /\ clean_points' = n
          /\ IF script = "building" /\ n < BuildingMinClean THEN Return0
             ELSE pc' = "dbscan" /\ result' = result
    /\ UNCHANGED outsideRun
    /\ UNCHANGED <<reader, unique_labels, script, fs, input_points, voxel_filtered, height_filtered,
                   clusters, i, instances, polygons, rejected_stats, log,
                   output_written, output_file, exit_code>>

\* ---- the labels DBSCAN returned
\* the labels of n clusters, and -1 when some row is noise, in the order of
\* their first rows in the array
FirstSeen(n, noise) ==
    { seen \in SeqsUpTo((-1)..(n - 1), n + 1) :
        /\ Range(seen) = (IF noise THEN {-1} ELSE {}) \cup 0..(n - 1)
        /\ Len(seen) = Cardinality(Range(seen)) }

\* the slot of a label in the table of a set of at most 4 elements: CPython
\* keeps 8 slots, hash(k) = k for k >= 0 and hash(-1) = -2
Slot(label) == (IF label = -1 THEN -2 ELSE label) % 8

\* iteration over a set that yields the elements in insertion order
SetOrder_Insertion(seen) == seen

\* iteration over set(labels): the elements by slot
RECURSIVE SetOrder(_)
SetOrder(seen) ==
    IF seen = <<>> THEN <<>>
    ELSE LET k == CHOOSE j \in 1..Len(seen) :
                     \A o \in 1..Len(seen) : Slot(seen[j]) <= Slot(seen[o])
         IN <<seen[k]>> \o SetOrder(SubSeq(seen, 1, k - 1) \o SubSeq(seen, k + 1, Len(seen)))

\* the labels other than the noise label
RECURSIVE WithoutNoise(_)
WithoutNoise(ls) ==
    IF ls = <<>> THEN <<>>
    ELSE IF Head(ls) = -1 THEN WithoutNoise(Tail(ls))
    ELSE <<Head(ls)>> \o WithoutNoise(Tail(ls))

\* the list the candidate loop runs over: sorted(unique_labels) in the
\* building and vegetation scripts, [l for l in set(labels) if l != -1] in
\* the wire script
UniqueLabels(s, seen) ==
    IF s = "wire" THEN WithoutNoise(SetOrder(seen))
    ELSE SortedSeq(WithoutNoise(SetOrder(seen)))

\* DBSCAN.  On an empty array it raises ValueError: the vegetation script's
\* outer except returns 0, the wire function lets it reach main()'s except.
\* Otherwise the clusters are disjoint sets of clean rows; none returns 0.
Cluster ==
    /\ pc = "dbscan"
    /\ IF clean_points = 0
       THEN /\ clusters' = clusters
            /\ unique_labels' = unique_labels
            /\ IF script = "wire" THEN pc' = "raised" /\ result' = result ELSE Return0
       ELSE \E cs \in SeqsUpTo(IF script = "wire" THEN WireClusters ELSE PolygonClusters,
                                MaxClusters) :
               /\ RowsIn(cs) <= clean_points
               /\ clusters' = cs
               /\ \E seen \in FirstSeen(Len(cs), RowsIn(cs) < clean_points) :
                     unique_labels' = UniqueLabels(script, seen)
               /\ IF Len(cs) = 0 THEN Return0 ELSE pc' = "loop" /\ result' = result
    /\ UNCHANGED outsideRun
    /\ UNCHANGED <<reader, script, fs, input_points, voxel_filtered, height_filtered, clean_points,
                   i, instances, polygons, rejected_stats, log,
                   output_written, output_file, exit_code>>

\* the loop body of script s for one cluster
CandidateOf(s, arr, r, existing) ==
    IF s = "building" THEN building_candidate(arr, r, existing)
    ELSE IF s = "vegetation" THEN vegetation_candidate(arr, r, existing)
    ELSE wire_candidate(arr)

\* NextId counting from 0
NextId_ZeroBased(insts) == Len(insts)

\* the identifier of the next accepted instance: len(buildings) + 1,
\* len(vegetation_areas) + 1, valid_lines + 1
NextId(insts) == Len(insts) + 1

\* the accepted list with the new instance put in front
AppendInstance_Front(insts, feature) == <<feature>> \o insts

\* buildings.append(building), vegetation_areas.append(vegetation),
\* wire_lines.append(wire_line)
AppendInstance(insts, feature) == Append(insts, feature)

\* the Feature script s appends for an accepted candidate
FeatureOf(s, cand, id) ==
    IF s = "wire" THEN LineFeature(cand, id) ELSE PolygonFeature(cand, id)

\* rejected_stats[reason] += 1 without the `continue` after the point-count
\* filter: the cluster falls through to the next rejection as well
CountRejection_NoContinue(stats, reason) ==
    IF reason = "too_few_points"
    THEN [stats EXCEPT !.too_few_points = @ + 1, !.too_sparse = @ + 1]
    ELSE [stats EXCEPT ![reason] = @ + 1]

\* rejected_stats[reason] += 1, leaving out 'invalid_polygon'
CountRejection_NotInvalid(stats, reason) ==
    IF reason = "invalid_polygon" THEN stats ELSE [stats EXCEPT ![reason] = @ + 1]

\* rejected_stats[reason] += 1
CountRejection(stats, reason) == [stats EXCEPT ![reason] = @ + 1]

\* the loop body of script s went as far as calling the footprint builder
ReachesBuilder(s, cand) ==
    s # "wire" /\ cand.outcome \notin {"too_few_points", "too_sparse"}

\* the candidate when an exception inside the footprint builder reached its
\* outer `except Exception` and the builder returned None
BuilderRaised(s, cand, raised) ==
    IF raised /\ ReachesBuilder(s, cand)
    THEN [cand EXCEPT !.outcome = "invalid_polygon", !.polygon_coords = None]
    ELSE cand

\* the loop body for the next cluster, by script
EvaluateCandidate(arr, r) == CandidateOf(script, arr, r, polygons)

\* the effect of one loop iteration: an accepted candidate is appended with the
\* next identifier, a rejected one is counted and printed
RecordCandidate(cand) ==
    /\ log' = Append(log, cand.outcome)
    /\ IF cand.outcome = "accepted"
       THEN /\ instances' = AppendInstance(instances, FeatureOf(script, cand, NextId(instances)))
            /\ polygons' = IF script = "wire" THEN polygons
                           ELSE Append(polygons, cand.polygon_coords)
            /\ rejected_stats' = rejected_stats
       ELSE /\ instances' = instances
            /\ polygons' = polygons
            /\ rejected_stats' =
                  IF script = "wire" THEN rejected_stats
                  ELSE CountRejection(rejected_stats, cand.outcome)

\* one iteration of the candidate loop
Candidate ==
    /\ pc = "loop"
    /\ i < Len(unique_labels)
    /\ \E r \in 0..MaxRot, raised \in BOOLEAN,
          flip \in (IF script = "wire" THEN BOOLEAN ELSE {FALSE}) :
          RecordCandidate(
              EigenvectorSign(script,
                  BuilderRaised(script,
                      EvaluateCandidate(clusters[unique_labels[i + 1] + 1], r), raised),
                  flip))
    /\ i' = i + 1
    /\ UNCHANGED outsideRun
    /\ UNCHANGED <<reader, unique_labels, script, pc, fs, input_points, voxel_filtered, height_filtered, clean_points,
                   clusters, result, output_written, output_file, exit_code>>

\* Finish without the `if not buildings: return 0` before the file is opened
Finish_AlwaysWrites ==
    /\ pc = "loop"
    /\ i = Len(unique_labels)
    /\ IF Len(instances) = 0
       THEN /\ Return0
            /\ fs' = fs
            /\ output_written' = output_written + 1
            /\ output_file' = WriteOutput(output_file, instances)
       ELSE /\ output_written' = output_written + 1
            /\ output_file' = WriteOutput(output_file, instances)
            /\ fs' = IF script = "building" THEN {} ELSE fs
            /\ result' = Len(instances)
            /\ pc' = "returned"
    /\ UNCHANGED outsideRun
    /\ UNCHANGED <<reader, unique_labels, script, input_points, voxel_filtered, height_filtered, clean_points,
                   clusters, i, instances, polygons, rejected_stats, log, exit_code>>

\* after the loop: no instance returns 0; otherwise the output file is written
\* and the count returned.  Only the building script removes its temporary
\* files here.
Finish ==
    /\ pc = "loop"
    /\ i = Len(unique_labels)
    /\ IF Len(instances) = 0
       THEN Return0 /\ fs' = fs /\ output_written' = output_written
                    /\ output_file' = output_file
       ELSE /\ output_written' = output_written + 1
            /\ output_file' = WriteOutput(output_file, instances)
            /\ fs' = IF script = "building" THEN {} ELSE fs
            /\ result' = Len(instances)
            /\ pc' = "returned"
    /\ UNCHANGED outsideRun
    /\ UNCHANGED <<reader, unique_labels, script, input_points, voxel_filtered, height_filtered, clean_points,
                   clusters, i, instances, polygons, rejected_stats, log, exit_code>>

\* ExitStatus with result >= 0 in place of result > 0
ExitStatus_NonNegative(p, res) == IF p = "returned" /\ res >= 0 THEN 0 ELSE 1

\* result > 0 falls off the end of __main__ (status 0); anything else is
\* sys.exit(1)
ExitStatus(p, res) == IF p = "returned" /\ res > 0 THEN 0 ELSE 1

\* the end of __main__ / main(): status 0 when result > 0, else 1; an exception
\* out of extract_wire_lines_enhanced is caught by main() and gives status 1
MainExit ==
    /\ pc \in {"returned", "raised"}
    /\ exit_code' = ExitStatus(pc, result)
    /\ pc' = "exit"
    /\ UNCHANGED outsideRun
    /\ UNCHANGED <<reader, unique_labels, script, fs, input_points, voxel_filtered, height_filtered, clean_points,
                   clusters, i, instances, polygons, rejected_stats, log, result,
                   output_written, output_file>>

vars == <<runVars, footVars, mastVars, procVars, rerunVars, callVars>>

\* ================================== the footprint builder called on its own
\* the grid the points of a small cluster lie on
FootGrid == (0..3) \X (0..2)

\* rows at the positions S, m at each
RECURSIVE RunsOf(_, _)
RunsOf(S, m) ==
    IF S = {} THEN <<>>
    ELSE LET p == CHOOSE q \in S : \A o \in S : q[1] < o[1] \/ (q[1] = o[1] /\ q[2] <= o[2])
         IN <<[p |-> p, m |-> m]>> \o RunsOf(S \ {p}, m)

\* the arrays the builder is called with: up to MaxFootPositions positions of
\* the grid, the same number of rows (1..MaxMult) at each
FootInputs ==
    {RunsOf(S, m) : S \in {T \in SUBSET FootGrid : Cardinality(T) \in 1..MaxFootPositions},
                     m \in 1..MaxMult}

FootInit ==
    /\ fp_kind \in {"building", "vegetation"}
    /\ fp_points \in FootInputs
    /\ fp_pc = "call"
    /\ fp_polygon = None
    /\ fp_ring = None

FootIdle ==
    /\ fp_kind = "building"
    /\ fp_points = <<>>
    /\ fp_pc = "idle"
    /\ fp_polygon = None
    /\ fp_ring = None

\* the call of create_footprint_building / create_vegetation_polygon
CreateFootprint ==
    /\ fp_pc = "call"
    /\ \E r \in 0..MaxRot :
          fp_polygon' = IF fp_kind = "building" THEN create_footprint_building(fp_points, r)
                        ELSE create_vegetation_polygon(fp_points, r)
    /\ fp_pc' = "returned"
    /\ UNCHANGED <<fp_kind, fp_points, fp_ring>>
    /\ UNCHANGED outsideFootprint

\* the Feature built from a polygon that was returned
EmitFeature ==
    /\ fp_pc = "returned"
    /\ fp_polygon # None
    /\ fp_ring' = FeatureRing(fp_polygon)
    /\ fp_pc' = "emitted"
    /\ UNCHANGED <<fp_kind, fp_points, fp_polygon>>
    /\ UNCHANGED outsideFootprint

\* ================================================ python_mast_enhanced.py
\* calculate_mast_quality scoring a height or density outside its range 0.0
calculate_mast_quality_ZeroOutside(mast_data, ground_level) ==
    LET point_count == mast_data.point_count
        relative_height == mast_data.centroid_z - ground_level
        per_metre == IF relative_height > 1 THEN relative_height ELSE 1
        f_points == IF MastMinPoints <= point_count /\ point_count <= MastMaxPoints
                    THEN 500 ELSE 0
        f_height == IF MinRelativeHeight <= relative_height
                       /\ relative_height <= MaxRelativeHeight
                    THEN 300 ELSE 0
        f_density == IF MinDensity * per_metre <= point_count
                        /\ point_count <= MaxDensity * per_metre
                     THEN 200 ELSE 0
    IN [quality_score |-> f_points + f_height + f_density,
        relative_height |-> relative_height]

\* calculate_mast_quality with the weights of height and density exchanged
calculate_mast_quality_SwappedWeights(mast_data, ground_level) ==
    LET point_count == mast_data.point_count
        relative_height == mast_data.centroid_z - ground_level
        per_metre == IF relative_height > 1 THEN relative_height ELSE 1
        f_points == IF MastMinPoints <= point_count /\ point_count <= MastMaxPoints
                    THEN 500 ELSE 0
        f_height == IF MinRelativeHeight <= relative_height
                       /\ relative_height <= MaxRelativeHeight
                    THEN 200 ELSE 100
        f_density == IF MinDensity * per_metre <= point_count
                        /\ point_count <= MaxDensity * per_metre
                     THEN 300 ELSE 210
    IN [quality_score |-> f_points + f_height + f_density,
        relative_height |-> relative_height]

\* calculate_mast_quality: the weighted score in thousandths and the relative
\* height; point counts and heights are whole numbers
calculate_mast_quality(mast_data, ground_level) ==
    LET point_count == mast_data.point_count
        relative_height == mast_data.centroid_z - ground_level
        per_metre == IF relative_height > 1 THEN relative_height ELSE 1
        f_points == IF MastMinPoints <= point_count /\ point_count <= MastMaxPoints
                    THEN 500 ELSE 0
        f_height == IF MinRelativeHeight <= relative_height
                       /\ relative_height <= MaxRelativeHeight
                    THEN 300 ELSE 150
        f_density == IF MinDensity * per_metre <= point_count
                        /\ point_count <= MaxDensity * per_metre
                     THEN 200 ELSE 140
    IN [quality_score |-> f_points + f_height + f_density,
        relative_height |-> relative_height]

\* a descending sort that is not stable: of equal counts the last comes first
RECURSIVE SortedByPoints_Unstable(_)
SortedByPoints_Unstable(masts) ==
    IF masts = <<>> THEN <<>>
    ELSE LET k == CHOOSE j \in 1..Len(masts) :
                     /\ \A o \in 1..Len(masts) : masts[o].point_count <= masts[j].point_count
                     /\ \A o \in (j + 1)..Len(masts) : masts[o].point_count < masts[j].point_count
         IN <<masts[k]>> \o SortedByPoints_Unstable(SubSeq(masts, 1, k - 1)
                                                     \o SubSeq(masts, k + 1, Len(masts)))

\* sorted(masts, key=point_count) without reverse=True: ascending
RECURSIVE SortedByPoints_Ascending(_)
SortedByPoints_Ascending(masts) ==
    IF masts = <<>> THEN <<>>
    ELSE LET k == CHOOSE j \in 1..Len(masts) :
                     /\ \A o \in 1..Len(masts) : masts[o].point_count >= masts[j].point_count
                     /\ \A o \in 1..(j - 1) : masts[o].point_count > masts[j].point_count
         IN <<masts[k]>> \o SortedByPoints_Ascending(SubSeq(masts, 1, k - 1)
                                                      \o SubSeq(masts, k + 1, Len(masts)))

\* sorted(masts, key=point_count, reverse=True): stable, equal counts keep
\* their order
RECURSIVE SortedByPoints(_)
SortedByPoints(masts) ==
    IF masts = <<>> THEN <<>>
    ELSE LET k == CHOOSE j \in 1..Len(masts) :
                     /\ \A o \in 1..Len(masts) : masts[o].point_count <= masts[j].point_count
                     /\ \A o \in 1..(j - 1) : masts[o].point_count < masts[j].point_count
         IN <<masts[k]>> \o SortedByPoints(SubSeq(masts, 1, k - 1) \o SubSeq(masts, k + 1, Len(masts)))

\* TooClose comparing the squared distance with the radius itself
TooClose_NoSquare(a, b) ==
    Sq(a.centroid_x - b.centroid_x) + Sq(a.centroid_y - b.centroid_y) < ProximityRadius

\* distance < proximity_radius, centroids in half metres
TooClose(a, b) ==
    Sq(a.centroid_x - b.centroid_x) + Sq(a.centroid_y - b.centroid_y) < Sq(ProximityRadius)

\* the loop of remove_duplicate_masts over the sorted masts
RECURSIVE KeepDistinct(_, _)
KeepDistinct(sorted_masts, filtered_masts) ==
    IF sorted_masts = <<>> THEN filtered_masts
    ELSE LET current_mast == Head(sorted_masts)
             is_duplicate == \E k \in 1..Len(filtered_masts) :
                                 TooClose(current_mast, filtered_masts[k])
         IN KeepDistinct(Tail(sorted_masts),
                         IF is_duplicate THEN filtered_masts
                         ELSE Append(filtered_masts, current_mast))

\* remove_duplicate_masts that never increments removed_count
remove_duplicate_masts_NoCount(masts) ==
    IF Len(masts) <= 1 THEN <<masts, 0>>
    ELSE <<KeepDistinct(SortedByPoints(masts), <<>>), 0>>

\* remove_duplicate_masts: <<filtered_masts, removed_count>>
remove_duplicate_masts(masts) ==
    IF Len(masts) <= 1 THEN <<masts, 0>>
    ELSE LET filtered_masts == KeepDistinct(SortedByPoints(masts), <<>>)
         IN <<filtered_masts, Len(masts) - Len(filtered_masts)>>

\* a mast of a centroids file: centroid in half metres, height in metres
Mast(point_count, x, y, z) ==
    [point_count |-> point_count, centroid_x |-> x, centroid_y |-> y, centroid_z |-> z]

MastLibrary ==
    { Mast(50, 0, 0, 10), Mast(4000, 0, 0, 10), Mast(500, 0, 0, 10),
      Mast(500, 2, 0, 10), Mast(500, 3, 0, 10), Mast(800, 3, 0, 10),
      Mast(200, 40, 0, 60) }

\* the file's masts, numbered in file order
Numbered(masts) ==
    [k \in 1..Len(masts) |->
        [object_id |-> k, point_count |-> masts[k].point_count,
         centroid_x |-> masts[k].centroid_x, centroid_y |-> masts[k].centroid_y,
         centroid_z |-> masts[k].centroid_z]]

ZeroMastStats ==
    [too_small |-> 0, too_large |-> 0, poor_quality |-> 0, duplicates_removed |-> 0,
     clean_masts |-> 0]

MastInit ==
    /\ mast_pc = "main"
    /\ centroids \in {Numbered(ms) : ms \in SeqsUpTo(MastLibrary, MaxMasts)}
    /\ min_z \in {0, 8}
    /\ mast_i = 0
    /\ clean_masts = <<>>
    /\ filtered_stats = ZeroMastStats
    /\ has_filtering = FALSE
    /\ clean_written = 0
    /\ mast_exit = -1

MastIdle ==
    /\ mast_pc = "idle"
    /\ centroids = <<>>
    /\ min_z = 0
    /\ mast_i = 0
    /\ clean_masts = <<>>
    /\ filtered_stats = ZeroMastStats
    /\ has_filtering = FALSE
    /\ clean_written = 0
    /\ mast_exit = -1

\* main(): one argument, and the glob must find the centroids file
MastMain ==
    /\ mast_pc = "main"
    /\ \E argc_ok \in BOOLEAN, found \in BOOLEAN :
          IF argc_ok /\ found
          THEN mast_pc' = "read" /\ mast_exit' = mast_exit
          ELSE mast_pc' = "exit" /\ mast_exit' = 1
    /\ UNCHANGED <<centroids, min_z, mast_i, clean_masts, filtered_stats, has_filtering,
                   clean_written>>
    /\ UNCHANGED outsideMast

\* process_mast_chunk up to the loop: an unreadable file returns None and
\* main() exits 1; a file without masts is returned as it was read
ReadCentroids ==
    /\ mast_pc = "read"
    /\ \E read_ok \in BOOLEAN :
          IF ~read_ok THEN mast_pc' = "exit" /\ mast_exit' = 1
          ELSE /\ mast_exit' = mast_exit
               /\ mast_pc' = IF Len(centroids) = 0 THEN "save" ELSE "filter"
    /\ UNCHANGED <<centroids, min_z, mast_i, clean_masts, filtered_stats, has_filtering,
                   clean_written>>
    /\ UNCHANGED outsideMast

\* the mast kept by the filter loop, with its validation details
CleanMast(mast, validation) ==
    [object_id |-> mast.object_id, point_count |-> mast.point_count,
     centroid_x |-> mast.centroid_x, centroid_y |-> mast.centroid_y,
     centroid_z |-> mast.centroid_z,
     relative_height_m |-> validation.relative_height,
     quality_score |-> validation.quality_score,
     validation_status |-> "clean_mast"]

\* the outcome of the filters for one mast
MastOutcome(mast, validation) ==
    IF mast.point_count < MastMinPoints THEN "too_small"
    ELSE IF mast.point_count > MastMaxPoints THEN "too_large"
    ELSE IF validation.quality_score < MinQualityScore THEN "poor_quality"
    ELSE "clean_masts"

\* one iteration of the filter loop of process_mast_chunk
FilterMast ==
    /\ mast_pc = "filter"
    /\ mast_i < Len(centroids)
    /\ mast_i' = mast_i + 1
    /\ filtered_stats' =
          [filtered_stats EXCEPT
              ![MastOutcome(centroids[mast_i + 1],
                            calculate_mast_quality(centroids[mast_i + 1], min_z))] = @ + 1]
    /\ clean_masts' =
          IF MastOutcome(centroids[mast_i + 1],
                         calculate_mast_quality(centroids[mast_i + 1], min_z)) = "clean_masts"
          THEN Append(clean_masts,
                      CleanMast(centroids[mast_i + 1],
                                calculate_mast_quality(centroids[mast_i + 1], min_z)))
          ELSE clean_masts
    /\ UNCHANGED <<mast_pc, centroids, min_z, has_filtering, clean_written, mast_exit>>
    /\ UNCHANGED outsideMast

\* after the loop: deduplication, the final count and the 'filtering' entry
Deduplicate ==
    /\ mast_pc = "filter"
    /\ mast_i = Len(centroids)
    /\ clean_masts' = remove_duplicate_masts(clean_masts)[1]
    /\ filtered_stats' =
          [filtered_stats EXCEPT
              !.duplicates_removed = remove_duplicate_masts(clean_masts)[2],
              !.clean_masts = Len(remove_duplicate_masts(clean_masts)[1])]
    /\ has_filtering' = TRUE
    /\ mast_pc' = "save"
    /\ UNCHANGED <<centroids, min_z, mast_i, clean_written, mast_exit>>
    /\ UNCHANGED outsideMast

\* the masts of the data main() saves
SavedCentroids == IF has_filtering THEN clean_masts ELSE centroids

\* the status main() ends with once the file is written: the summary reads
\* clean_data['filtering'], a KeyError when the data was returned unprocessed
\* (sys.exit(1) in the except); otherwise main() returns
MastExitStatus(filtering_present, clean_count) == IF filtering_present THEN 0 ELSE 1

\* main(): write the _clean.json file, print the summary, exit
SaveClean ==
    /\ mast_pc = "save"
    /\ \E write_ok \in BOOLEAN :
          IF write_ok
          THEN /\ clean_written' = clean_written + 1
               /\ mast_exit' = MastExitStatus(has_filtering, Len(SavedCentroids))
          ELSE /\ clean_written' = clean_written
               /\ mast_exit' = 1
    /\ mast_pc' = "exit"
    /\ UNCHANGED <<centroids, min_z, mast_i, clean_masts, filtered_stats, has_filtering>>
    /\ UNCHANGED outsideMast

\* ===================================== two invocations, one /tmp directory
Invocations == {1, 2}

ConcurrentScripts ==
    {"python_instance_enhanced_fixed1", "python_instance_enhanced",
     "python_vegetation_enhanced_fixed1", "python_wire_enhanced"}

\* chunk paths <<parent directory, base name>>
ChunkPaths == {<<"site_a", "chunk_1">>, <<"site_b", "chunk_1">>, <<"site_a", "chunk_2">>}

\* chunk_name = os.path.basename(chunk_path); python_instance_enhanced.py is
\* given the name itself
ChunkName(chunk_path) == chunk_path[2]

\* the part of a temporary file's name that comes from the script
TempPrefix(s) ==
    IF s \in {"python_instance_enhanced_fixed1", "python_instance_enhanced"}
    THEN "/tmp/building_test/"
    ELSE IF s = "python_vegetation_enhanced_fixed1" THEN "/tmp/vegetation_"
    ELSE "/tmp/wire_"

\* temp_points / temp_points_file
TempPoints(s, chunk_path) == <<TempPrefix(s), ChunkName(chunk_path), "points">>

\* pipeline_file / temp_pipeline_file
TempPipeline(s, chunk_path) == <<TempPrefix(s), ChunkName(chunk_path), "pipeline">>

TempNames ==
    {TempPoints(s, c) : s \in ConcurrentScripts, c \in ChunkPaths}
        \cup {TempPipeline(s, c) : s \in ConcurrentScripts, c \in ChunkPaths}

IsBuildingScript(s) == s \in {"python_instance_enhanced_fixed1", "python_instance_enhanced"}

ProcInit ==
    /\ proc \in [Invocations -> [script : ConcurrentScripts, chunk_path : ChunkPaths,
                                 pc : {"write_pipeline"}]]
    /\ tmp = [f \in TempNames |-> 0]
    /\ interference = {}

ProcIdle ==
    /\ proc = [p \in Invocations |->
                  [script |-> "python_wire_enhanced", chunk_path |-> <<"site_a", "chunk_1">>,
                   pc |-> "idle"]]
    /\ tmp = [f \in TempNames |-> 0]
    /\ interference = {}

\* what invocation p does to the files `names` of the file system t
Touches(what, p, names, t) ==
    {<<what, p, t[f]>> : f \in {g \in names : t[g] # 0 /\ t[g] # p}}

\* the files `names` removed from the file system t
Removed(names, t) == [f \in TempNames |-> IF f \in names THEN 0 ELSE t[f]]

PointsOf(p) == TempPoints(proc[p].script, proc[p].chunk_path)

PipelineOf(p) == TempPipeline(proc[p].script, proc[p].chunk_path)

\* open(pipeline_file, 'w') and json.dump
WritePipelineFile(p) ==
    /\ proc[p].pc = "write_pipeline"
    /\ interference' = interference \cup Touches("overwrite", p, {PipelineOf(p)}, tmp)
    /\ tmp' = [tmp EXCEPT ![PipelineOf(p)] = p]
    /\ proc' = [proc EXCEPT ![p].pc = "reader"]

\* the external reader: it opens the pipeline file, and when it succeeds it
\* has written the points file; without the pipeline file it fails
RunReaderOn(p) ==
    /\ proc[p].pc = "reader"
    /\ \E ok \in BOOLEAN :
          IF tmp[PipelineOf(p)] = 0 \/ ~ok
          THEN /\ interference' = interference \cup Touches("read", p, {PipelineOf(p)}, tmp)
               /\ tmp' = tmp
               /\ proc' = [proc EXCEPT ![p].pc = "done"]
          ELSE /\ interference' =
                     interference \cup Touches("read", p, {PipelineOf(p)}, tmp)
                                  \cup Touches("overwrite", p, {PointsOf(p)}, tmp)
               /\ tmp' = [tmp EXCEPT ![PointsOf(p)] = p]
               /\ proc' = [proc EXCEPT ![p].pc = "load"]

\* the files the vegetation and wire scripts remove after reading the points:
\* vegetation removes both only inside `if os.path.exists(temp_points_file)`
\* and stops at the first that is missing; wire removes each that exists
RemovedAfterLoad(p, t) ==
    IF proc[p].script = "python_vegetation_enhanced_fixed1"
    THEN IF t[PointsOf(p)] = 0 THEN {} ELSE {PointsOf(p), PipelineOf(p)}
    ELSE {PointsOf(p), PipelineOf(p)}

\* reading the points file.  The building scripts go on (np.loadtxt of a
\* missing file returns 0); the others remove their temporary files
LoadPointsFile(p) ==
    /\ proc[p].pc = "load"
    /\ IF IsBuildingScript(proc[p].script)
       THEN /\ interference' = interference \cup Touches("read", p, {PointsOf(p)}, tmp)
            /\ tmp' = tmp
            /\ proc' = [proc EXCEPT ![p].pc = IF tmp[PointsOf(p)] = 0 THEN "done"
                                              ELSE "process"]
       ELSE /\ interference' =
                  interference \cup Touches("read", p, {PointsOf(p)}, tmp)
                               \cup Touches("delete", p, RemovedAfterLoad(p, tmp), tmp)
            /\ tmp' = Removed(RemovedAfterLoad(p, tmp), tmp)
            /\ proc' = [proc EXCEPT ![p].pc = "done"]

\* the files a building script removes when it has written its output:
\* os.remove(temp_points) then os.remove(pipeline_file), the second only if
\* the first did not raise
RemovedAtEnd(p, t) ==
    IF t[PointsOf(p)] = 0 THEN {} ELSE {PointsOf(p), PipelineOf(p)}

\* the rest of a building run: every return before the output is written
\* leaves the temporary files, the successful one removes them
FinishBuilding(p) ==
    /\ proc[p].pc = "process"
    /\ \E success \in BOOLEAN :
          IF success
          THEN /\ interference' =
                     interference \cup Touches("delete", p, RemovedAtEnd(p, tmp), tmp)
               /\ tmp' = Removed(RemovedAtEnd(p, tmp), tmp)
          ELSE interference' = interference /\ tmp' = tmp
    /\ proc' = [proc EXCEPT ![p].pc = "done"]

WritePipelineFiles ==
    /\ \E p \in Invocations : WritePipelineFile(p)
    /\ UNCHANGED outsideConcurrent

RunReaders ==
    /\ \E p \in Invocations : RunReaderOn(p)
    /\ UNCHANGED outsideConcurrent

LoadPointsFiles ==
    /\ \E p \in Invocations : LoadPointsFile(p)
    /\ UNCHANGED outsideConcurrent

FinishBuildings ==
    /\ \E p \in Invocations : FinishBuilding(p)
    /\ UNCHANGED outsideConcurrent

\* ===================================== the accept/reject stage run twice
\* the inputs of the stage: labelled clusters, or the masts of a file
RerunInputs(s) ==
    IF s = "mast" THEN {Numbered(ms) : ms \in SeqsUpTo(MastLibrary, MaxMasts)}
    ELSE IF s = "wire" THEN SeqsUpTo(WireClusters, MaxClusters)
    ELSE SeqsUpTo(PolygonClusters, MaxClusters)

RerunInit ==
    /\ rr_script \in {"building", "vegetation", "wire", "mast"}
    /\ rr_input \in RerunInputs(rr_script)
    /\ rr_rot \in 0..MaxRot
    /\ rr_pass = 1
    /\ rr_i = 0
    /\ rr_instances = <<>>
    /\ rr_polygons = <<>>
    /\ rr_first = <<>>

\* the accepted list after a candidate of script s
AcceptedWith(s, insts, cand) ==
    IF cand.outcome = "accepted" THEN AppendInstance(insts, FeatureOf(s, cand, NextId(insts)))
    ELSE insts

\* building_polygons / vegetation_polygons after a candidate of script s
PolygonsWith(s, polys, cand) ==
    IF cand.outcome = "accepted" /\ s # "wire" THEN Append(polys, cand.polygon_coords)
    ELSE polys

\* steps one pass takes: one per cluster, one call of remove_duplicate_masts
PassLength == IF rr_script = "mast" THEN 1 ELSE Len(rr_input)

\* the effect of one candidate on the pass under way
RerunRecord(cand) ==
    /\ rr_instances' = AcceptedWith(rr_script, rr_instances, cand)
    /\ rr_polygons' = PolygonsWith(rr_script, rr_polygons, cand)

\* one iteration of the candidate loop, in either pass
RerunCandidate ==
    /\ rr_pass \in {1, 2}
    /\ rr_script # "mast"
    /\ rr_i < Len(rr_input)
    /\ RerunRecord(CandidateOf(rr_script, rr_input[rr_i + 1], rr_rot, rr_polygons))
    /\ rr_i' = rr_i + 1
    /\ UNCHANGED <<rr_script, rr_input, rr_rot, rr_pass, rr_first>>
    /\ UNCHANGED outsideRerun

\* remove_duplicate_masts on the mast list, in either pass
RerunDeduplicate ==
    /\ rr_pass \in {1, 2}
    /\ rr_script = "mast"
    /\ rr_i = 0
    /\ rr_instances' = remove_duplicate_masts(rr_input)[1]
    /\ rr_i' = 1
    /\ UNCHANGED <<rr_script, rr_input, rr_rot, rr_pass, rr_polygons, rr_first>>
    /\ UNCHANGED outsideRerun

\* NewRunList that keeps what the earlier run left
NewRunList_Kept(left_over) == left_over

\* buildings = [] and building_polygons = [] at the start of a run: nothing
\* of an earlier run is left
NewRunList(left_over) == <<>>

\* the end of a pass; the second starts from empty lists
RerunEndPass ==
    /\ rr_pass \in {1, 2}
    /\ rr_i = PassLength
    /\ IF rr_pass = 1
       THEN /\ rr_first' = rr_instances
            /\ rr_instances' = NewRunList(rr_instances)
            /\ rr_polygons' = NewRunList(rr_polygons)
            /\ rr_i' = 0
            /\ rr_pass' = 2
       ELSE /\ rr_pass' = 3
            /\ UNCHANGED <<rr_first, rr_instances, rr_polygons, rr_i>>
    /\ UNCHANGED <<rr_script, rr_input, rr_rot>>
    /\ UNCHANGED outsideRerun

\* ============================================ the functions called alone
\* Coordinates of the pre-processing stages are whole tenths of a metre.

\* np.floor(point / voxel_size).astype(int) of one row
VoxelIndex(point, voxel_size) ==
    <<point[1] \div voxel_size, point[2] \div voxel_size, point[3] \div voxel_size>>

\* rows compared as np.unique(axis=0) orders them
LexLess(a, b) ==
    \/ a[1] < b[1]
    \/ a[1] = b[1] /\ a[2] < b[2]
    \/ a[1] = b[1] /\ a[2] = b[2] /\ a[3] < b[3]

\* return_index taking the last row of each voxel
UniqueIndices_Last(voxel_indices) ==
    {k \in 1..Len(voxel_indices) :
        \A j \in (k + 1)..Len(voxel_indices) : voxel_indices[j] # voxel_indices[k]}

\* return_index=True: the index of the first row of each distinct voxel
UniqueIndices(voxel_indices) ==
    {k \in 1..Len(voxel_indices) :
        \A j \in 1..(k - 1) : voxel_indices[j] # voxel_indices[k]}

\* the indices in the order of their voxels, as np.unique returns them
RECURSIVE ByVoxel(_, _)
ByVoxel(voxel_indices, indices) ==
    IF indices = {} THEN <<>>
    ELSE LET k == CHOOSE j \in indices :
                     \A o \in indices \ {j} : LexLess(voxel_indices[j], voxel_indices[o])
         IN <<k>> \o ByVoxel(voxel_indices, indices \ {k})

\* voxel_filtered = points_3d[unique_indices]
voxel_filter(points_3d, voxel_size) ==
    LET voxel_indices == [k \in 1..Len(points_3d) |-> VoxelIndex(points_3d[k], voxel_size)]
        unique_indices == ByVoxel(voxel_indices, UniqueIndices(voxel_indices))
    IN [k \in 1..Len(unique_indices) |-> points_3d[unique_indices[k]]]

\* the voxel sizes of the three scripts: 0.3 m, 0.4 m, 0.2 m
BuildingVoxel == 3
VegetationVoxel == 4
WireVoxel == 2

\* rows of a point array handed to the voxel stage
VoxelRows ==
    { <<0, 0, 0>>, <<1, 2, 0>>, <<3, 0, 0>>, <<-1, 0, 0>>, <<2, 2, 5>>, <<3, 3, 3>> }

VoxelInputs ==
    [points_3d : SeqsUpTo(VoxelRows, MaxRows) \ {<<>>},
     voxel_size : {BuildingVoxel, VegetationVoxel, WireVoxel}]

\* ---- statistical outlier removal
\* neighbours asked of the k-d tree, and rows below which the stage returns 0
OutlierNeighbors(s) == IF s = "building" THEN 10 ELSE IF s = "vegetation" THEN 12 ELSE 8

OutlierMinRows(s) ==
    IF s = "building" THEN BuildingMinFiltered
    ELSE IF s = "vegetation" THEN VegetationMinFiltered
    ELSE WireMinFiltered

\* the Euclidean distance of two rows; the rows drawn are a whole number of
\* units apart
Root(n) == CHOOSE r \in 0..n : r * r = n

Distance(a, b) == Root(Dist2(a, b))

\* the rows of run j other than one row of run r
OtherRows(arr, r, j) == IF j = r THEN arr[j].m - 1 ELSE arr[j].m

\* distances[:, 1:].sum(axis=1) for a row of run r: the sum of its distances
\* to its k nearest other rows, nearest runs first
RECURSIVE NearestSum(_, _, _, _)
NearestSum(arr, r, k, todo) ==
    IF k = 0 \/ todo = {} THEN 0
    ELSE LET j == CHOOSE c \in todo :
                     \A o \in todo : Distance(arr[r].p, arr[c].p) <= Distance(arr[r].p, arr[o].p)
             taken == IF OtherRows(arr, r, j) < k THEN OtherRows(arr, r, j) ELSE k
         IN taken * Distance(arr[r].p, arr[j].p) + NearestSum(arr, r, k - taken, todo \ {j})

\* k_neighbors = min(k, len(points_2d) - 1)
k_neighbors(s, arr) ==
    IF OutlierNeighbors(s) < NumPoints(arr) - 1 THEN OutlierNeighbors(s) ELSE NumPoints(arr) - 1

\* k_neighbors * mean_distances, one entry per run
distance_sums(s, arr) ==
    [r \in 1..Len(arr) |-> NearestSum(arr, r, k_neighbors(s, arr), 1..Len(arr))]

\* n * (entry - mean of the entries over all rows), one entry per run
Deviations(arr, sums) ==
    [r \in 1..Len(arr) |->
        NumPoints(arr) * sums[r] - SumSeq([j \in 1..Len(arr) |-> arr[j].m * sums[j]])]

\* n^3 * variance of the entries over all rows
Spread(arr, dev) == SumSeq([j \in 1..Len(arr) |-> arr[j].m * Sq(dev[j])])

\* mean_distances < mean_dist + 2.5 * std_dist, in exact arithmetic:
\* dev < 2.5 * sqrt(spread / n)
BelowThreshold(n, dev_r, spread) ==
    \/ dev_r < 0
    \/ dev_r = 0 /\ spread > 0
    \/ dev_r > 0 /\ 4 * n * Sq(dev_r) < 25 * spread

\* inlier_mask, one entry per run
inlier_mask(s, arr) ==
    [r \in 1..Len(arr) |->
        BelowThreshold(NumPoints(arr),
                       Deviations(arr, distance_sums(s, arr))[r],
                       Spread(arr, Deviations(arr, distance_sums(s, arr))))]

\* points_2d[inlier_mask]
RECURSIVE Masked(_, _)
Masked(arr, mask) ==
    IF arr = <<>> THEN <<>>
    ELSE IF Head(mask) THEN <<Head(arr)>> \o Masked(Tail(arr), Tail(mask))
    ELSE Masked(Tail(arr), Tail(mask))

outlier_filter(s, arr) ==
    [inlier_mask |-> inlier_mask(s, arr),
     clean_points_2d |-> Masked(arr, inlier_mask(s, arr))]

\* rows of the 2D array handed to the outlier stage: the corners of a
\* 3 x 4 rectangle, each held by 1 or 10 rows
OutlierRuns ==
    { [p |-> q, m |-> k] : q \in {<<0, 0>>, <<3, 0>>, <<3, 4>>, <<0, 4>>}, k \in {1, 10} }

OutlierInputs ==
    { a \in [script : Scripts, points_2d : SeqsUpTo(OutlierRuns, MaxRows)] :
        NumPoints(a.points_2d) >= OutlierMinRows(a.script) }

\* ---- geometry metrics
\* vertices of the lists handed to the metric functions: the corners of a
\* 3 x 4 rectangle
MetricVertices == { <<0, 0>>, <<3, 0>>, <<3, 4>>, <<0, 4>> }

CoordsInputs == SeqsUpTo(MetricVertices, MaxVertices)

CompactnessInputs == [area : 0..2, perimeter : 0..2]

DensityInputs ==
    SeqsUpTo({ [p |-> q, m |-> k] : q \in MetricVertices, k \in {1, 2} }, MaxRows)

CoordsFunctions ==
    {"calculate_polygon_area", "calculate_polygon_perimeter",
     "vegetation_calculate_polygon_perimeter", "calculate_aspect_ratio",
     "vegetation_calculate_aspect_ratio"}

\* the functions called, and the arguments drawn for each
Functions ==
    {"voxel_filter", "outlier_filter", "calculate_compactness", "calculate_point_density"}
    \cup CoordsFunctions

CallInputs(f) ==
    IF f = "voxel_filter" THEN VoxelInputs
    ELSE IF f = "outlier_filter" THEN OutlierInputs
    ELSE IF f = "calculate_compactness" THEN CompactnessInputs
    ELSE IF f = "calculate_point_density" THEN DensityInputs
    ELSE CoordsInputs

CallInit ==
    /\ fn \in Functions
    /\ args \in CallInputs(fn)
    /\ ret = <<>>
    /\ fn_pc = "call"

CallVoxelFilter ==
    /\ fn = "voxel_filter"
    /\ fn_pc = "call"
    /\ ret' = voxel_filter(args.points_3d, args.voxel_size)
    /\ fn_pc' = "returned"
    /\ UNCHANGED <<fn, args>>
    /\ UNCHANGED outsideCalls

\* ========================================================= specifications
RunIdle == RunInit /\ script = "building"

\* one extraction run
Init == RunInit /\ FootIdle /\ MastIdle /\ ProcIdle /\ RerunIdle /\ CallIdle

Next ==
    \/ Main
    \/ Normalize
    \/ WritePipeline
    \/ RunReader
    \/ LoadPoints
    \/ VoxelFilter
    \/ HeightFilter
    \/ OutlierFilter
    \/ Cluster
    \/ Candidate
    \/ Finish
    \/ MainExit

Spec == Init /\ [][Next]_vars

\* the footprint builder called on a small cluster
InitFootprint == FootInit /\ RunIdle /\ MastIdle /\ ProcIdle /\ RerunIdle /\ CallIdle

NextFootprint == CreateFootprint \/ EmitFeature

SpecFootprint == InitFootprint /\ [][NextFootprint]_vars

\* one run of the mast cleanup script
InitMast == MastInit /\ RunIdle /\ FootIdle /\ ProcIdle /\ RerunIdle /\ CallIdle

NextMast == MastMain \/ ReadCentroids \/ FilterMast \/ Deduplicate \/ SaveClean

SpecMast == InitMast /\ [][NextMast]_vars

\* two invocations running concurrently
InitConcurrent == ProcInit /\ RunIdle /\ FootIdle /\ MastIdle /\ RerunIdle /\ CallIdle

NextConcurrent == WritePipelineFiles \/ RunReaders \/ LoadPointsFiles \/ FinishBuildings

SpecConcurrent == InitConcurrent /\ [][NextConcurrent]_vars

\* the accept/reject stage run twice on one input
InitRerun == RerunInit /\ RunIdle /\ FootIdle /\ MastIdle /\ ProcIdle /\ CallIdle

NextRerun == RerunCandidate \/ RerunDeduplicate \/ RerunEndPass

SpecRerun == InitRerun /\ [][NextRerun]_vars

CallOutlierFilter ==
    /\ fn = "outlier_filter"
    /\ fn_pc = "call"
    /\ ret' = outlier_filter(args.script, args.points_2d)
    /\ fn_pc' = "returned"
    /\ UNCHANGED <<fn, args>>
    /\ UNCHANGED outsideCalls

CallPolygonArea ==
    /\ fn = "calculate_polygon_area"
    /\ fn_pc = "call"
    /\ ret' = calculate_polygon_area(args)
    /\ fn_pc' = "returned"
    /\ UNCHANGED <<fn, args>>
    /\ UNCHANGED outsideCalls

CallPolygonPerimeter ==
    /\ fn = "calculate_polygon_perimeter"
    /\ fn_pc = "call"
    /\ ret' = calculate_polygon_perimeter(args)
    /\ fn_pc' = "returned"
    /\ UNCHANGED <<fn, args>>
    /\ UNCHANGED outsideCalls

CallVegetationPerimeter ==
    /\ fn = "vegetation_calculate_polygon_perimeter"
    /\ fn_pc = "call"
    /\ ret' = vegetation_calculate_polygon_perimeter(args)
    /\ fn_pc' = "returned"
    /\ UNCHANGED <<fn, args>>
    /\ UNCHANGED outsideCalls

CallAspectRatio ==
    /\ fn = "calculate_aspect_ratio"
    /\ fn_pc = "call"
    /\ ret' = calculate_aspect_ratio(args)
    /\ fn_pc' = "returned"
    /\ UNCHANGED <<fn, args>>
    /\ UNCHANGED outsideCalls

CallVegetationAspectRatio ==
    /\ fn = "vegetation_calculate_aspect_ratio"
    /\ fn_pc = "call"
    /\ ret' = vegetation_calculate_aspect_ratio(args)
    /\ fn_pc' = "returned"
    /\ UNCHANGED <<fn, args>>
    /\ UNCHANGED outsideCalls

CallCompactness ==
    /\ fn = "calculate_compactness"
    /\ fn_pc = "call"
    /\ ret' = calculate_compactness(args.area, args.perimeter)
    /\ fn_pc' = "returned"
    /\ UNCHANGED <<fn, args>>
    /\ UNCHANGED outsideCalls

CallPointDensity ==
    /\ fn = "calculate_point_density"
    /\ fn_pc = "call"
    /\ ret' = calculate_point_density(args)
    /\ fn_pc' = "returned"
    /\ UNCHANGED <<fn, args>>
    /\ UNCHANGED outsideCalls

InitCalls == CallInit /\ RunIdle /\ FootIdle /\ MastIdle /\ ProcIdle /\ RerunIdle

NextCalls ==
    \/ CallVoxelFilter
    \/ CallOutlierFilter
    \/ CallPolygonArea
    \/ CallPolygonPerimeter
    \/ CallVegetationPerimeter
    \/ CallAspectRatio
    \/ CallVegetationAspectRatio
    \/ CallCompactness
    \/ CallPointDensity


SpecCalls == InitCalls /\ [][NextCalls]_vars

\* ====================================================== properties, one run
\* number of iterations that printed the outcome `reason`
Printed(reason) == Cardinality({k \in 1..Len(log) : log[k] = reason})

\* the footprint of the k-th cluster of the run (hull start 0)
FootprintOf(k) ==
    IF script = "building" THEN create_footprint_building(clusters[k], 0)
    ELSE create_vegetation_polygon(clusters[k], 0)

\* C1 (as claimed): in a building or vegetation run, any two distinct accepted
\* instances have reference points (bounding-box centre for buildings, vertex
\* centroid for vegetation) at least the minimum overlap distance apart.
C1_OverlapGuarantee ==
    script \in {"building", "vegetation"} =>
        \A a, b \in 1..Len(polygons) :
            a # b =>
                IF script = "building"
                THEN ~CenterCloser(polygons[a], polygons[b], BuildingMinDistance)
                ELSE ~CentroidCloser(polygons[a], polygons[b], VegetationMinDistance)

\* C4: at every point of the candidate loop every accepted instance satisfies
\* the filter bounds of its class: point_count >= min_points, area_m2 within
\* the size range, aspect_ratio <= max_aspect_ratio.
C4_FilterBounds ==
    \A k \in 1..Len(instances) :
        /\ script = "building" =>
              /\ instances[k].point_count >= BuildingMinPoints
              /\ instances[k].area_m2 >= 2 * BuildingMinArea
              /\ instances[k].area_m2 <= 2 * BuildingMaxArea
              /\ ~AspectExceeds(instances[k].aspect_ratio, BuildingMaxAspect)
        /\ script = "vegetation" =>
              /\ instances[k].point_count >= VegetationMinPoints
              /\ instances[k].area_m2 >= 2 * VegetationMinArea
              /\ instances[k].area_m2 <= 2 * VegetationMaxArea
              /\ ~AspectExceeds(instances[k].aspect_ratio, VegetationMaxAspect)

\* C4 witness: the loop of a building run has accepted an instance after it
\* rejected a candidate
C4_Witness ==
    /\ script = "building"
    /\ Len(log) = 2
    /\ log[1] # "accepted"
    /\ Len(instances) = 1

\* C5 (as claimed): a building candidate of 30 points whose footprint area is
\* 5 m2 is rejected under the reason too_small.
C5_TooSmallAsClaimed ==
    script = "building" =>
        \A k \in 1..Len(log) :
            (NumPoints(clusters[k]) = 30 /\ calculate_polygon_area(FootprintOf(k)) = 10)
                => log[k] = "too_small"

\* C5 (amended): a building candidate of 30 points whose footprint area is
\* 5 m2 is rejected under too_few_points (the point-count filter, minimum 80,
\* runs before the size filter); a candidate of at least 80 points and density
\* of at least 0.3 whose footprint area is 5 m2 is rejected under too_small;
\* each counter equals the number of candidates rejected for its reason.
C5_TooFewPointsFirst ==
    script = "building" =>
        /\ \A k \in 1..Len(log) :
              calculate_polygon_area(FootprintOf(k)) = 10 =>
                  /\ NumPoints(clusters[k]) = 30 => log[k] = "too_few_points"
                  /\ (NumPoints(clusters[k]) >= BuildingMinPoints
                      /\ ~TooSparse(calculate_point_density(clusters[k]))
                      /\ log[k] # "invalid_polygon")
                         => log[k] = "too_small"
        /\ rejected_stats.too_few_points = Printed("too_few_points")
        /\ rejected_stats.too_small = Printed("too_small")

\* C5 witness: a building run has evaluated a 30-point, 5 m2 candidate and an
\* 80-point, 5 m2 candidate
C5_Witness ==
    /\ script = "building"
    /\ \E k \in 1..Len(log) :
          NumPoints(clusters[k]) = 30 /\ calculate_polygon_area(FootprintOf(k)) = 10
    /\ \E k \in 1..Len(log) :
          NumPoints(clusters[k]) = 80 /\ calculate_polygon_area(FootprintOf(k)) = 10

\* a cluster passes the point-count, density, size and aspect-ratio filters of
\* the building script
PassesBuildingFilters(arr) == building_candidate(arr, 0, <<>>).outcome = "accepted"

\* C6 (as claimed): when two building candidates each pass the point-count,
\* density, size and aspect-ratio filters and their reference points are 3 m
\* apart, the first-processed one is accepted and the later one is rejected
\* with reason overlap.
C6_GreedyOverlap ==
    script = "building" =>
        \A a, b \in 1..Len(log) :
            ( /\ a < b
              /\ PassesBuildingFilters(clusters[a])
              /\ PassesBuildingFilters(clusters[b])
              /\ Dist2(Center2(FootprintOf(a)), Center2(FootprintOf(b))) = 4 * Sq(3)
              /\ log[a] = "accepted" )
                => log[b] = "overlap"

C9_TempFilesRemoved == pc = "exit" => fs = {}

\* the identifier of an accepted instance
InstanceId(inst) == IF script = "wire" THEN inst.line_id ELSE inst.polygon_id

\* C12: after n acceptances the identifiers in the accepted list are exactly
\* 1..n in acceptance order, and a rejected candidate consumes no identifier:
\* there are as many identifiers as accepted candidates.
C12_SequentialIds ==
    /\ \A k \in 1..Len(instances) : InstanceId(instances[k]) = k
    /\ Len(instances) = Printed("accepted")

\* C12 witness: a wire run accepted a line after it rejected a candidate
C12_Witness ==
    /\ script = "wire"
    /\ Len(log) = 2
    /\ log[1] # "accepted"
    /\ Len(instances) = 1

\* s is t or t with elements added at its end
IsPrefix(s, t) == Len(s) <= Len(t) /\ SubSeq(t, 1, Len(s)) = s

\* C19: the accept/reject loop never goes back.  Every step leaves the
\* clusters as they are, advances the loop by at most one cluster, prints one
\* outcome for exactly the cluster it evaluated, and leaves the accepted
\* list and the outcomes printed so far as they were, adding at most one
\* instance at the end of the list, and only for a cluster printed as accepted.
C19_NoBacktracking ==
    [][ /\ pc = "loop" => clusters' = clusters
        /\ i' \in {i, i + 1}
        /\ Len(log) = i /\ Len(log') = i'
        /\ IsPrefix(log, log')
        /\ IsPrefix(instances, instances')
        /\ IsPrefix(polygons, polygons')
        /\ Len(instances') <= Len(instances) + 1
        /\ Len(instances') = Len(instances) + 1 => (i' = i + 1 /\ log'[i'] = "accepted")
        /\ (i' = i + 1 /\ log'[i'] # "accepted") => instances' = instances
      ]_vars

\* C19 witness: the loop ended with two accepted instances
C19_Witness ==
    /\ script = "vegetation"
    /\ pc = "returned"
    /\ i = 2
    /\ Len(instances) = 2

\* C18: a cluster for which the footprint builder yields no polygon is
\* skipped: the step that prints 'invalid_polygon' counts it, leaves the
\* accepted instances and their polygons as they were and moves on to the
\* next cluster, and the loop is left only once every cluster was evaluated.
C18_InvalidPolygonSkipped ==
    [][ /\ (Len(log') = Len(log) + 1 /\ log'[Len(log')] = "invalid_polygon") =>
              /\ rejected_stats'.invalid_polygon = rejected_stats.invalid_polygon + 1
              /\ instances' = instances
              /\ polygons' = polygons
              /\ i' = i + 1
              /\ pc' = "loop"
        /\ (pc = "loop" /\ pc' # "loop") =>
              /\ i = Len(clusters)
              /\ Len(log) = Len(clusters)
              /\ rejected_stats.invalid_polygon = Printed("invalid_polygon")
      ]_vars

\* C18 witness: the builder gave no polygon for the first cluster and the
\* second was accepted
C18_Witness ==
    /\ script = "building"
    /\ pc = "returned"
    /\ log = <<"invalid_polygon", "accepted">>
    /\ Len(instances) = 1

EndedEmpty ==
    /\ pc \in {"returned", "exit"}
    /\ result = 0
    /\ voxel_filtered = 0
    /\ clusters = <<>>
    /\ instances = <<>>
    /\ output_written = 0

RejectedClusters ==
    rejected_stats.too_small + rejected_stats.too_large + rejected_stats.too_few_points
    + rejected_stats.aspect_ratio + rejected_stats.overlap
    + rejected_stats.invalid_polygon + rejected_stats.too_sparse

C29_OutputOnlyAfterLoop ==
    /\ [](/\ output_written <= 1
          /\ output_written = 0 <=> output_file = PreviousOutput
          /\ (pc \in {"returned", "raised", "exit"} /\ Len(instances) = 0)
                => output_file = PreviousOutput)
    /\ [][output_file' # output_file =>
             /\ pc = "loop"
             /\ i = Len(unique_labels)
             /\ Len(instances) >= 1
             /\ output_written = 0
             /\ output_file' = WriteOutput(output_file, instances)]_vars

\* C29 witness: a run ended after two candidates, both rejected, and the
\* output file is the one an earlier run left
C29_Witness ==
    /\ pc = "exit"
    /\ i = 2
    /\ Len(log) = 2
    /\ Len(instances) = 0
    /\ output_file = PreviousOutput

\* the loop iteration that accepted the k-th instance
AcceptedAt(k) ==
    CHOOSE j \in 1..Len(log) :
        /\ log[j] = "accepted"
        /\ Cardinality({o \in 1..j : log[o] = "accepted"}) = k

\* the cluster the k-th instance was built from
ClusterOfInstance(k) == clusters[unique_labels[AcceptedAt(k)] + 1]

\* the coordinates follow each other with non-decreasing projection on the
\* axis, seen in one of its two directions
OrderedAlong(coords, axis) ==
    \E d \in {-1, 1} :
        \A j \in 1..(Len(coords) - 1) : d * coords[j][axis] <= d * coords[j + 1][axis]

\* C30: every wire line in the accepted list comes from a cluster of at least
\* 20 points, is at least 5 m long along its principal axis, has
\* length / max(width, 0.1) >= 3, and its LineString has min(50, point_count)
\* coordinates (between 20 and 50), each a point of the cluster, in
\* non-decreasing order of projection on the principal axis.
C30_WireLineValid ==
    script = "wire" =>
        \A k \in 1..Len(instances) :
            LET line == instances[k]
                arr == ClusterOfInstance(k)
                axis == PrincipalAxis(arr)
                width10 == IF 10 * line.width_m > 1 THEN 10 * line.width_m ELSE 1
            IN /\ line.point_count = NumPoints(arr)
               /\ line.point_count >= WireMinPoints
               /\ line.length_m = Extent(arr, axis)
               /\ line.length_m >= WireMinLength
               /\ 10 * line.length_m >= WireMinAspect * width10
               /\ Len(line.coordinates) =
                      (IF line.point_count < 50 THEN line.point_count ELSE 50)
               /\ Len(line.coordinates) \in 20..50
               /\ \A j \in 1..Len(line.coordinates) : line.coordinates[j] \in Positions(arr)
               /\ OrderedAlong(line.coordinates, axis)

\* C30 witness: a line was emitted from a cluster of more than 50 points whose
\* rows are not in order along the axis; it has 50 coordinates that start at
\* another point than the cluster's first row and end farther along the axis
C30_Witness ==
    /\ script = "wire"
    /\ Len(instances) >= 1
    /\ instances[1].point_count > 50
    /\ Len(instances[1].coordinates) = 50
    /\ instances[1].coordinates[1][1] < instances[1].coordinates[50][1]
    /\ instances[1].coordinates[1] # ClusterOfInstance(1)[1].p

\* ========================================= properties, footprint builder
\* first vertex equal to the last, at least 4 vertices
IsClosedRing(v) == Len(v) >= 4 /\ v[1] = v[Len(v)]

\* C2 (as claimed): the footprint builder returns no polygon only when the
\* cluster has fewer than 4 points, and for a cluster of 4 or more points on
\* which the concave-hull and convex-hull steps both fail (all points
\* collinear) it returns the axis-aligned bounding box of the points.
C2_BoundingBoxFallback ==
    fp_pc \in {"returned", "emitted"} =>
        /\ fp_polygon = None => NumPoints(fp_points) < 4
        /\ (NumPoints(fp_points) >= 4 /\ HullFails(Positions(fp_points)))
              => fp_polygon = AxisAlignedBBox(fp_points)

\* C3: every polygon the footprint builder returns, by whichever strategy, has
\* its first vertex equal to its last and at least 4 vertices, and so has the
\* coordinate ring of every Feature built from it.
C3_ClosureInvariant ==
    /\ (fp_pc \in {"returned", "emitted"} /\ fp_polygon # None) => IsClosedRing(fp_polygon)
    /\ fp_pc = "emitted" => IsClosedRing(fp_ring)

\* C3 witness: a Feature was built from a building footprint that is the
\* simplified concave hull, the simplification having removed a vertex
C3_Witness ==
    /\ fp_pc = "emitted"
    /\ fp_kind = "building"
    /\ \E r \in 0..MaxRot :
          /\ create_concave_hull(fp_points, r) # None
          /\ fp_polygon = simplify_polygon(create_concave_hull(fp_points, r))
          /\ Len(fp_polygon) < Len(create_concave_hull(fp_points, r))

\* ================================================ properties, mast cleanup
\* C8 (as claimed): the mast cleanup script exits 0 exactly when it has
\* written a cleaned output in which at least one mast remains, and 1
\* otherwise.
C8_MastExitCode ==
    mast_pc = "exit" =>
        /\ mast_exit \in {0, 1}
        /\ mast_exit = 0 <=> (clean_written > 0 /\ Len(SavedCentroids) >= 1)

\* squared 2D distance between two masts' centroids, in half metres
MastDist2(a, b) == Sq(a.centroid_x - b.centroid_x) + Sq(a.centroid_y - b.centroid_y)

\* the list is in descending order of point count
DescendingPoints(masts) ==
    \A j, k \in 1..Len(masts) : j < k => masts[j].point_count >= masts[k].point_count

PointCountValidity(m) ==
    IF MastMinPoints <= m.point_count /\ m.point_count <= MastMaxPoints THEN 10 ELSE 0

HeightValidity(m) ==
    IF MinRelativeHeight <= m.relative_height_m /\ m.relative_height_m <= MaxRelativeHeight
    THEN 10 ELSE 5

DensityValidity(m) ==
    LET metres == IF m.relative_height_m > 1 THEN m.relative_height_m ELSE 1
    IN IF MinDensity * metres <= m.point_count /\ m.point_count <= MaxDensity * metres
       THEN 10 ELSE 7

\* C14: every mast of the cleaned list carries the score
\* 0.5 x point-count validity + 0.3 x height validity + 0.2 x density validity
\* (in thousandths), that score is at least 0.6, and its point count is within
\* [min_points, max_points]; the masts counted as rejected and kept add up to
\* the masts examined.
C14_QualityFilter ==
    /\ \A k \in 1..Len(clean_masts) :
          /\ clean_masts[k].quality_score =
                50 * PointCountValidity(clean_masts[k])
                + 30 * HeightValidity(clean_masts[k])
                + 20 * DensityValidity(clean_masts[k])
          /\ clean_masts[k].quality_score >= MinQualityScore
          /\ MastMinPoints <= clean_masts[k].point_count
          /\ clean_masts[k].point_count <= MastMaxPoints
    /\ mast_pc = "filter" =>
          filtered_stats.too_small + filtered_stats.too_large
          + filtered_stats.poor_quality + filtered_stats.clean_masts = mast_i

\* C14 witness: the cleaned output holds a mast whose height and density are
\* both outside their ranges, and a mast above max_points was rejected
C14_Witness ==
    /\ mast_pc = "save"
    /\ has_filtering
    /\ filtered_stats.too_large = 1
    /\ \E k \in 1..Len(clean_masts) :
          HeightValidity(clean_masts[k]) = 5 /\ DensityValidity(clean_masts[k]) = 7

\* the masts of the file whose point count is within [min_points, max_points]
InRange == {k \in 1..Len(centroids) :
               MastMinPoints <= centroids[k].point_count
               /\ centroids[k].point_count <= MastMaxPoints}

C25_MastAccounting ==
    /\ (mast_pc \in {"save", "exit"} /\ has_filtering) =>
          /\ Len(centroids) > 0
          /\ filtered_stats.too_small + filtered_stats.too_large
             + filtered_stats.poor_quality + filtered_stats.duplicates_removed
             + filtered_stats.clean_masts = Len(centroids)
          /\ filtered_stats.clean_masts = Len(clean_masts)
    /\ mast_pc = "filter" =>
          /\ filtered_stats.duplicates_removed = 0
          /\ filtered_stats.clean_masts = Len(clean_masts)
          /\ filtered_stats.too_small + filtered_stats.too_large
             + filtered_stats.poor_quality + Len(clean_masts) = mast_i

\* C25 witness: a file of three masts ended with one too small, one removed
\* as a duplicate and one kept
C25_Witness ==
    /\ mast_pc = "exit"
    /\ has_filtering
    /\ Len(centroids) = 3
    /\ filtered_stats.too_small = 1
    /\ filtered_stats.duplicates_removed = 1
    /\ Len(clean_masts) = 1

\* the list process_mast_chunk hands to remove_duplicate_masts: the masts the
\* filter loop kept, in file order
KeptByLoop ==
    LET Kept(m) == MastOutcome(m, calculate_mast_quality(m, min_z)) = "clean_masts"
        kept == SelectSeq(centroids, Kept)
    IN [k \in 1..Len(kept) |-> CleanMast(kept[k], calculate_mast_quality(kept[k], min_z))]

\* the masts of the handed list that the returned list no longer holds
RemovedMasts ==
    {KeptByLoop[j] : j \in {o \in 1..Len(KeptByLoop) :
                               \A k \in 1..Len(clean_masts) : clean_masts[k] # KeptByLoop[o]}}

C28_DedupIdempotent ==
    (mast_pc \in {"save", "exit"} /\ has_filtering) =>
        remove_duplicate_masts(clean_masts) = <<clean_masts, 0>>

\* C28 witness: the first application removed a mast and returned two masts
\* with equal point counts, which a second application has to sort again
C28_Witness ==
    /\ mast_pc = "save"
    /\ has_filtering
    /\ filtered_stats.duplicates_removed = 1
    /\ Len(clean_masts) = 2
    /\ clean_masts[1].point_count = clean_masts[2].point_count

\* =========================================== properties, two invocations
\* C10 (as claimed): neither invocation reads, overwrites or deletes a
\* temporary file written by the other.
C10_NoInterference == interference = {}

\* ============================================ properties, functions alone
\* the voxel of a row of the call under way
VoxelOfRow(point) == VoxelIndex(point, args.voxel_size)

\* C15: the voxel reducer returns exactly one row per occupied voxel, the
\* first row of that voxel in input order: no two returned rows share a
\* voxel, every voxel of the input is represented, every returned row is an
\* input row, and no more rows are returned than were given.
C15_OnePerVoxel ==
    (fn = "voxel_filter" /\ fn_pc = "returned") =>
        /\ \A j, k \in 1..Len(ret) : j # k => VoxelOfRow(ret[j]) # VoxelOfRow(ret[k])
        /\ \A k \in 1..Len(args.points_3d) :
              \E j \in 1..Len(ret) : VoxelOfRow(ret[j]) = VoxelOfRow(args.points_3d[k])
        /\ \A j \in 1..Len(ret) :
              \E k \in 1..Len(args.points_3d) :
                  /\ ret[j] = args.points_3d[k]
                  /\ \A o \in 1..(k - 1) :
                        VoxelOfRow(args.points_3d[o]) # VoxelOfRow(ret[j])
        /\ Len(ret) <= Len(args.points_3d)

\* C15 witness: two different rows of one voxel were given and one returned
C15_Witness ==
    /\ fn = "voxel_filter"
    /\ fn_pc = "returned"
    /\ Len(ret) = 2
    /\ \E j, k \in 1..Len(args.points_3d) :
          /\ j < k
          /\ args.points_3d[j] # args.points_3d[k]
          /\ VoxelOfRow(args.points_3d[j]) = VoxelOfRow(args.points_3d[k])

\* the mean neighbour distance of run r exceeds mean_dist + 2.5 * std_dist
ExceedsThreshold(s, arr, r) ==
    /\ Deviations(arr, distance_sums(s, arr))[r] > 0
    /\ 4 * NumPoints(arr) * Sq(Deviations(arr, distance_sums(s, arr))[r])
          > 25 * Spread(arr, Deviations(arr, distance_sums(s, arr)))

\* C16: the outlier filter discards a row if and only if its mean distance
\* to its k nearest neighbours exceeds mean + 2.5 * standard deviation; a row
\* at or below the threshold is kept, also when all mean distances are equal.
C16_KeptUnlessAbove ==
    (fn = "outlier_filter" /\ fn_pc = "returned") =>
        \A r \in 1..Len(args.points_2d) :
            ret.inlier_mask[r] <=> ~ExceedsThreshold(args.script, args.points_2d, r)

\* the call under way was given a degenerate input: a vertex list shorter
\* than the function's minimum, a zero perimeter, or rows without a convex hull
DegenerateCall ==
    \/ fn = "calculate_polygon_area" /\ Len(args) < 4
    \/ fn = "calculate_polygon_perimeter" /\ Len(args) < 2
    \/ fn = "vegetation_calculate_polygon_perimeter" /\ Len(args) < 3
    \/ fn = "calculate_aspect_ratio" /\ Len(args) < 4
    \/ fn = "vegetation_calculate_aspect_ratio" /\ Len(args) < 3
    \/ fn = "calculate_compactness" /\ args.perimeter = 0
    \/ fn = "calculate_point_density" /\ (NumPoints(args) < 4 \/ HullFails(Positions(args)))

\* the value returned is 0
ReturnedZero ==
    IF fn \in {"calculate_polygon_area", "calculate_polygon_perimeter",
               "vegetation_calculate_polygon_perimeter"}
    THEN ret = 0
    ELSE ret[1] = 0 /\ ret[2] # 0

\* C20 (as claimed): each geometry metric function returns 0 on degenerate
\* input.
C20_ZeroOnDegenerate ==
    (fn \in CoordsFunctions \cup {"calculate_compactness", "calculate_point_density"}
        /\ fn_pc = "returned" /\ DegenerateCall) => ReturnedZero

\* C20 (amended): on degenerate input the area, perimeter, compactness and
\* point-density functions return 0 and the two aspect-ratio functions
\* return 1; no call ends in an error.
C20_ZeroOrOneOnDegenerate ==
    (fn \in CoordsFunctions \cup {"calculate_compactness", "calculate_point_density"}
        /\ fn_pc = "returned" /\ DegenerateCall) =>
        IF fn \in {"calculate_aspect_ratio", "vegetation_calculate_aspect_ratio"}
        THEN ret = <<1, 1>>
        ELSE ReturnedZero

\* C20 witness: the building script's aspect ratio was asked for a list of
\* three distinct vertices and returned 1
C20_Witness ==
    /\ fn = "calculate_aspect_ratio"
    /\ fn_pc = "returned"
    /\ Len(args) = 3
    /\ args[1] # args[2]
    /\ args[2] # args[3]
    /\ ret = <<1, 1>>

\* twice the signed area of the polygon whose ring is coords, by the
\* trapezoid formula over the edges of the ring
Trapezoid2(coords) ==
    SumSeq([k \in 1..(Len(coords) - 1) |->
               (coords[k][1] - coords[k + 1][1]) * (coords[k][2] + coords[k + 1][2])])

\* the list read backwards
Reversed(coords) == [k \in 1..Len(coords) |-> coords[Len(coords) + 1 - k]]

\* C21: for a closed polygon calculate_polygon_area returns half the absolute
\* value of the cyclic shoelace sum over the vertices without the closing one
\* (here twice the area: the absolute value of the sum), the same for both
\* vertex orders, and it never returns a negative value.
C21_AreaNonNegative ==
    (fn = "calculate_polygon_area" /\ fn_pc = "returned") =>
        /\ ret >= 0
        /\ (Len(args) >= 4 /\ args[1] = args[Len(args)]) =>
              /\ ret = Abs(Trapezoid2(args))
              /\ ret = calculate_polygon_area(Reversed(args))

\* C21 witness: the area of a closed rectangle whose shoelace sum is negative
C21_Witness ==
    /\ fn = "calculate_polygon_area"
    /\ fn_pc = "returned"
    /\ Len(args) = 5
    /\ args[1] = args[5]
    /\ Trapezoid2(args) = -24
    /\ ret = 24

====
